---- MODULE Spec2Model ----
(***************************************************************************)
(* Verification model of the chat assistant's conversation state:          *)
(*   - lib/storage/thread-storage.ts : the event-driven persistence layer  *)
(*     (saveThreads, cleanupOldThreads, tryAggressiveCleanup) writing the  *)
(*     localStorage key "ollama-threads-storage";                          *)
(*   - lib/stores/settings-store.ts  : the chat store (threads map,        *)
(*     currentThreadId, isRunning), its one-time migration of the key      *)
(*     above and its persistence under "ollama-chat-storage";              *)
(*   - lib/ollama-external-runtime.tsx : onNew / onReload / onEdit and the *)
(*     response stream that updates the chat store.                        *)
(* Strings are sequences of small integers; JavaScript objects used as     *)
(* maps are sequences of records, in key insertion order.                  *)
(***************************************************************************)
EXTENDS Integers, Sequences, FiniteSets, TLC

VARIABLES
    legacyStore,      \* localStorage["ollama-threads-storage"]
    now,              \* the wall clock read by new Date()
    call,             \* what the last saveThreads call did (observation)
    saves,            \* number of saveThreads calls made so far
    chatStorage,      \* localStorage["ollama-chat-storage"]
    loaded,           \* the chat store module has been evaluated in this page
    threads,          \* ChatStore.threads
    currentThreadId,  \* ChatStore.currentThreadId
    isRunning,        \* ChatStore.isRunning
    nextId,           \* number of identifiers generateId / generateProjectId handed out
    migrations,       \* the migrateOldData calls made so far (observation)
    last,             \* what the last thread-list operation did (observation)
    streams,          \* the streamOllamaResponse calls made in this page
    request,          \* the last chat request built for the model server
    projects,         \* ProjectStore.projects
    projectThreadId,  \* currentThreadId of the project runtime provider
    titled,           \* the last generateThreadTitle calls: argument and results
    hook,             \* usePersistThreads: its debounce timer and refs
    selectedModel,    \* ModelStore.selectedModel
    threadModel,      \* the model field of each thread of the chat store
    provider          \* OllamaRuntimeProvider: isInitialMount and the effect's deps

storageVars == <<legacyStore, now, call, saves>>
chatVars == <<chatStorage, loaded, threads, currentThreadId, isRunning, nextId,
              migrations, last, streams>>
projectVars == <<projects, projectThreadId, titled>>
hookVars == <<hook, selectedModel, threadModel, provider>>
vars == <<legacyStore, now, call, saves, chatStorage, loaded, threads,
          currentThreadId, isRunning, nextId, migrations, last, streams, request,
          projects, projectThreadId, titled, hook, selectedModel, threadModel,
          provider>>

(***************************************************************************)
(* Bounds of the model                                                     *)
(***************************************************************************)
MaxSaves == 2
MaxIds == 2
MaxBoots == 2

(***************************************************************************)
(* Values                                                                  *)
(***************************************************************************)
NoDoc   == [kind |-> "absent"]       \* getItem returns null
Corrupt == [kind |-> "corrupt"]      \* a value JSON.parse throws on

MainId == 0                          \* the thread id "main"

\* STORAGE_CONFIG.maxThreads
maxThreads == 10

NoStatus == [type |-> "none", reason |-> "", error |-> ""]
Running  == [type |-> "running", reason |-> "", error |-> ""]
Complete == [type |-> "complete", reason |-> "stop", error |-> ""]
Incomplete(e) == [type |-> "incomplete", reason |-> "error", error |-> e]

TextPart(t) == [type |-> "text", text |-> t]
ImagePart(d) == [type |-> "image", text |-> d]
Parts(ps) == [tag |-> "parts", text |-> <<>>, parts |-> ps]
Str(t) == [tag |-> "string", text |-> t, parts |-> <<>>]

ImageAttachment(d) == [type |-> "image", content |-> <<ImagePart(d)>>]

Msg(id, role, content, atts, status) ==
    [id |-> id, role |-> role, content |-> content,
     attachments |-> atts, status |-> status]

(***************************************************************************)
(* Ordered maps: Record<string, T> as a sequence of records with an id     *)
(***************************************************************************)
Ids(ts) == {ts[i].id : i \in DOMAIN ts}

HasId(ts, id) == \E i \in DOMAIN ts : ts[i].id = id

IndexOf(ts, id) == CHOOSE i \in DOMAIN ts : ts[i].id = id

Get(ts, id) == ts[IndexOf(ts, id)]

\* { ...ts, [t.id]: t } : an existing key keeps its place, a new one goes last
Put(ts, t) ==
    IF HasId(ts, t.id)
    THEN [ts EXCEPT ![IndexOf(ts, t.id)] = t]
    ELSE Append(ts, t)

\* delete ts[id]
Remove(ts, id) ==
    IF HasId(ts, id)
    THEN LET k == IndexOf(ts, id)
         IN  SubSeq(ts, 1, k - 1) \o SubSeq(ts, k + 1, Len(ts))
    ELSE ts

(***************************************************************************)
(* thread-storage.ts                                                       *)
(***************************************************************************)
\* loadThreads: null when the key is absent or its value does not parse
loadThreads(store) == IF store.kind = "doc" THEN store ELSE NoDoc

IsNull(d) == d.kind # "doc"

Doc(ts, mainId) == [kind |-> "doc", threads |-> ts, mainThreadId |-> mainId]

\* Array.prototype.sort with (a, b) => time(b.updatedAt) - time(a.updatedAt):
\* a stable sort, most recent first.
RECURSIVE InsertByUpdatedDesc(_, _)
InsertByUpdatedDesc(sorted, t) ==
    IF sorted = <<>> THEN <<t>>
    ELSE IF t.updatedAt > Head(sorted).updatedAt
         THEN <<t>> \o sorted
         ELSE <<Head(sorted)>> \o InsertByUpdatedDesc(Tail(sorted), t)

RECURSIVE SortByUpdatedDesc(_)
SortByUpdatedDesc(ts) ==
    IF ts = <<>> THEN <<>>
    ELSE InsertByUpdatedDesc(SortByUpdatedDesc(SubSeq(ts, 1, Len(ts) - 1)), ts[Len(ts)])

\* cleanupOldThreads without its sort: keeps the first N keys of the object
cleanupOldThreadsUnsorted(ts, max) ==
    IF Len(ts) <= max THEN ts
    ELSE SubSeq(ts, 1, max)

\* cleanupOldThreads(threads, maxThreads)
cleanupOldThreads(ts, max) ==
    IF Len(ts) <= max THEN ts
    ELSE SubSeq(SortByUpdatedDesc(ts), 1, max)

\* The ThreadData that saveThreads builds for `data` at time t
threadData(existing, data, t) ==
    [id        |-> data.threadId,
     messages  |-> data.messages,
     createdAt |-> IF ~IsNull(existing) /\ HasId(existing.threads, data.threadId)
                   THEN Get(existing.threads, data.threadId).createdAt
                   ELSE t,
     updatedAt |-> t,
     model     |-> data.model]

\* updatedThreads of saveThreads: existing threads merged with the saved one
mergedThreads(store, data, t) ==
    LET existing == loadThreads(store)
    IN  Put(IF IsNull(existing) THEN <<>> ELSE existing.threads,
            threadData(existing, data, t))

\* persistedData of saveThreads
persistedData(store, data, t) ==
    Doc(cleanupOldThreads(mergedThreads(store, data, t), maxThreads), data.threadId)

\* msg => ({ ...msg, attachments: [] })
stripAttachments(m) == [m EXCEPT !.attachments = <<>>]

\* Math.floor(STORAGE_CONFIG.maxThreads / 2)
reducedMax == maxThreads \div 2

\* persistedData of tryAggressiveCleanup, built from the stored document
aggressiveData(data) ==
    LET cleaned == cleanupOldThreads(data.threads, reducedMax)
    IN  Doc([i \in DOMAIN cleaned |->
                [cleaned[i] EXCEPT !.messages =
                    [j \in DOMAIN cleaned[i].messages |->
                        stripAttachments(cleaned[i].messages[j])]]],
            data.mainThreadId)

\* outcomes of localStorage.setItem
WriteOutcomes == {"ok", "QuotaExceededError", "SecurityError"}

Attempt(doc, outcome) == [doc |-> doc, outcome |-> outcome]

\* tryAggressiveCleanup(): the write attempts it makes, given the outcome of
\* its setItem
aggressiveAttempts(store, o2) ==
    LET data == loadThreads(store)
    IN  IF IsNull(data) THEN <<>>
        ELSE <<Attempt(aggressiveData(data), o2)>>

\* the write attempts of one saveThreads call, first to last
saveAttempts(store, data, t, o1, o2) ==
    <<Attempt(persistedData(store, data, t), o1)>>
    \o (IF o1 = "QuotaExceededError" THEN aggressiveAttempts(store, o2) ELSE <<>>)

\* the store after a sequence of write attempts: each successful one replaces
\* the value of the key
RECURSIVE storeAfter(_, _)
storeAfter(store, attempts) ==
    IF attempts = <<>> THEN store
    ELSE storeAfter(IF Head(attempts).outcome = "ok" THEN Head(attempts).doc
                    ELSE store,
                    Tail(attempts))

(***************************************************************************)
(* Inputs of the persistence layer                                         *)
(***************************************************************************)
Hello == <<72, 105>>                 \* "Hi"
Reply == <<79, 75>>                  \* "OK"
Base64 == <<65, 65>>                 \* image data, "AA"

\* a user message with one image attachment, alone and answered
WithImage ==
    <<Msg(101, "user", Parts(<<TextPart(Hello)>>), <<ImageAttachment(Base64)>>, NoStatus)>>
Answered ==
    <<Msg(101, "user", Parts(<<TextPart(Hello)>>), <<ImageAttachment(Base64)>>, NoStatus),
      Msg(102, "assistant", Parts(<<TextPart(Reply)>>), <<>>, Complete)>>
TextOnly ==
    <<Msg(103, "user", Parts(<<TextPart(Reply)>>), <<>>, NoStatus)>>

SavedMessages == {Answered, TextOnly}

\* thread ids passed to saveThreads: "main", the oldest stored one, a new one
SavedIds == {MainId, 1, 11}

SaveData(id, msgs) == [threadId |-> id, messages |-> msgs, model |-> "gemma3:latest"]

\* the document left by n successful saveThreads calls for threads 1..n, made
\* one per clock tick, or all within the same millisecond
RECURSIVE Stored(_, _)
Stored(n, sameTime) ==
    IF n = 0 THEN NoDoc
    ELSE persistedData(Stored(n - 1, sameTime), SaveData(n, WithImage),
                       IF sameTime THEN 1 ELSE n)

StoredSizes == {6, 9, 10}

NoCall == [kind |-> "none"]

\* the persistence hook is not mounted
NoHook == [mounted |-> FALSE]

\* selectedModel: "" (no model selected)
NoModel == <<>>

\* the runtime provider is not mounted
Unmounted == [mounted |-> FALSE]
Undefined == [kind |-> "undefined"]
NoOp == [op |-> "none", onCurrent |-> FALSE]

InitStorage ==
    /\ \/ /\ legacyStore \in {NoDoc, Corrupt}
          /\ now = 1
       \/ \E n \in StoredSizes : \E sameTime \in BOOLEAN :
            /\ legacyStore = Stored(n, sameTime)
            /\ now = IF sameTime THEN 1 ELSE n
    /\ call = NoCall
    /\ saves = 0
    /\ chatStorage = NoDoc
    /\ loaded = FALSE
    /\ threads = <<>>
    /\ currentThreadId = MainId
    /\ isRunning = FALSE
    /\ nextId = 0
    /\ migrations = <<>>
    /\ last = NoOp
    /\ streams = <<>>
    /\ request = NoCall
    /\ projects = <<>>
    /\ projectThreadId = Undefined
    /\ titled = NoCall
    /\ hook = NoHook
    /\ selectedModel = NoModel
    /\ threadModel = <<>>
    /\ provider = Unmounted

\* saveThreads(data), with the outcome o1 of its setItem and the outcome o2 of
\* the setItem of tryAggressiveCleanup; the clock may or may not have advanced
saveThreads(id, msgs, tick, o1, o2) ==
    LET t == now + tick
        data == SaveData(id, msgs)
        attempts == saveAttempts(legacyStore, data, t, o1, o2)
    IN  /\ saves < MaxSaves
        /\ now' = t
        /\ saves' = saves + 1
        /\ legacyStore' = storeAfter(legacyStore, attempts)
        /\ call' = [kind |-> "saveThreads", data |-> data, before |-> legacyStore,
                    merged |-> mergedThreads(legacyStore, data, t),
                    attempts |-> attempts]
        /\ UNCHANGED chatVars
        /\ UNCHANGED request
        /\ UNCHANGED projectVars
        /\ UNCHANGED hookVars

\* clearThreads()
clearThreads ==
    /\ legacyStore # NoDoc
    /\ legacyStore' = NoDoc
    /\ call' = [kind |-> "clearThreads"]
    /\ UNCHANGED <<now, saves>>
    /\ UNCHANGED chatVars
    /\ UNCHANGED request
    /\ UNCHANGED projectVars
    /\ UNCHANGED hookVars

\* a call whose write succeeds, or fails with an error other than quota
SavePlain ==
    \E id \in SavedIds : \E msgs \in SavedMessages : \E tick \in {0, 1} :
        \E o1 \in {"ok", "SecurityError"} :
            saveThreads(id, msgs, tick, o1, "ok")

\* a call whose write exceeds the quota
SaveOverQuota ==
    \E id \in SavedIds : \E msgs \in SavedMessages : \E tick \in {0, 1} :
        \E o2 \in WriteOutcomes :
            saveThreads(id, msgs, tick, "QuotaExceededError", o2)

NextStorage == SavePlain \/ SaveOverQuota \/ clearThreads

SpecStorage == InitStorage /\ [][NextStorage]_vars

(***************************************************************************)
(* Claims about the persistence layer (SpecStorage)                        *)
(***************************************************************************)
Range(seq) == {seq[i] : i \in DOMAIN seq}

SaveCalled == call.kind = "saveThreads"

FirstWrite == call.attempts[1]

\* no thread of `all` left out of `kept` was modified later than a kept one
KeepsMostRecent(kept, all) ==
    \A d \in Range(all) \ Range(kept) : \A k \in Range(kept) :
        d.updatedAt <= k.updatedAt

\* C1: after a saveThreads call whose write succeeded, the stored document
\* holds at most maxThreads threads, all taken from the merged set; when the
\* merged set had more than maxThreads threads exactly maxThreads are kept,
\* and no dropped thread was modified later than a kept one.
C1_RetentionKeepsMostRecent ==
    (SaveCalled /\ FirstWrite.outcome = "ok") =>
        /\ legacyStore.kind = "doc"
        /\ Len(legacyStore.threads) <= maxThreads
        /\ Range(legacyStore.threads) \subseteq Range(call.merged)
        /\ Len(call.merged) > maxThreads =>
              /\ Cardinality(Ids(legacyStore.threads)) = maxThreads
              /\ Len(legacyStore.threads) = maxThreads
              /\ KeepsMostRecent(legacyStore.threads, call.merged)

\* a successful call whose merged set exceeded the maximum and dropped a
\* thread strictly older than every kept one
C1_Witness ==
    /\ SaveCalled /\ FirstWrite.outcome = "ok"
    /\ Len(call.merged) = maxThreads + 1
    /\ \E d \in Range(call.merged) \ Range(legacyStore.threads) :
          \A k \in Range(legacyStore.threads) : d.updatedAt < k.updatedAt

AllAttachmentsEmpty(ts) ==
    \A i \in DOMAIN ts : \A j \in DOMAIN ts[i].messages :
        ts[i].messages[j].attachments = <<>>

\* C8: a write that fails with QuotaExceededError is followed by exactly one
\* further write, of a document with at most floor(maxThreads/2) threads, the
\* most recently modified ones, with the attachments of every message empty;
\* whether or not that write succeeds nothing more is written.  A write that
\* fails in another way is followed by no write.
C8_QuotaTriggersOneRetry ==
    SaveCalled =>
        /\ FirstWrite.outcome = "QuotaExceededError" =>
              /\ Len(call.attempts) = 2
              /\ Len(call.attempts[2].doc.threads) <= reducedMax
              /\ AllAttachmentsEmpty(call.attempts[2].doc.threads)
        /\ FirstWrite.outcome # "QuotaExceededError" => Len(call.attempts) = 1

\* the part of C8 the code does satisfy: when a document is stored, the
\* retry is made once, reduced and stripped, and other failures are final
C8_RetryWhenDocumentStored ==
    SaveCalled =>
        /\ (FirstWrite.outcome = "QuotaExceededError" /\ call.before.kind = "doc") =>
              /\ Len(call.attempts) = 2
              /\ Len(call.attempts[2].doc.threads) <= reducedMax
              /\ AllAttachmentsEmpty(call.attempts[2].doc.threads)
              /\ KeepsMostRecent(
                    [i \in DOMAIN call.attempts[2].doc.threads |->
                        Get(call.before.threads, call.attempts[2].doc.threads[i].id)],
                    call.before.threads)
        /\ (FirstWrite.outcome = "QuotaExceededError" /\ call.before.kind # "doc") =>
              Len(call.attempts) = 1
        /\ FirstWrite.outcome # "QuotaExceededError" => Len(call.attempts) = 1

\* C9: when the write fails on quota and the retry succeeds, the stored
\* document holds the thread the call was saving, with the messages passed to
\* the call, attachments stripped.
C9_RetryKeepsSavedThread ==
    (/\ SaveCalled
     /\ Len(call.attempts) = 2
     /\ call.attempts[2].outcome = "ok") =>
        /\ HasId(legacyStore.threads, call.data.threadId)
        /\ Get(legacyStore.threads, call.data.threadId).messages =
              [j \in DOMAIN call.data.messages |->
                  stripAttachments(call.data.messages[j])]

(***************************************************************************)
(* settings-store.ts: the chat store                                       *)
(* A ChatThread is modelled by its id, messages, title and status; its     *)
(* timestamps are read by no operation of the store but the display order  *)
(* of getRegularThreads / getArchivedThreads and are left out.            *)
(***************************************************************************)
\* the n-th identifier handed out by generateId / generateMessageId
generateId(n) == 1000 + n

NewChat == <<78, 101, 119, 32, 67, 104, 97, 116>>      \* "New Chat"
Ellipsis == <<46, 46, 46>>                             \* "..."
Space == <<32>>                                        \* " "

\* text.substring(0, 50)
titleLimit == 50

substring(text, n) == SubSeq(text, 1, IF Len(text) < n THEN Len(text) ELSE n)

\* texts.join(sep)
RECURSIVE join(_, _)
join(texts, sep) ==
    IF texts = <<>> THEN <<>>
    ELSE IF Len(texts) = 1 THEN texts[1]
    ELSE texts[1] \o sep \o join(Tail(texts), sep)

IsTitleText(c) == c.type = "text" /\ c.text # <<>>

\* the text generateThreadTitle extracts from a message content
titleText(content) ==
    IF content.tag = "string" THEN content.text
    ELSE LET kept == SelectSeq(content.parts, IsTitleText)
         IN  join([i \in DOMAIN kept |-> kept[i].text], Space)

IsUser(m) == m.role = "user"

\* generateThreadTitle that cuts the text without marking it
generateThreadTitleUnmarked(messages) ==
    LET users == SelectSeq(messages, IsUser)
    IN  IF users = <<>> THEN NewChat
        ELSE LET text == titleText(users[1].content)
                 truncated == substring(text, titleLimit)
             IN  IF truncated = <<>> THEN NewChat ELSE truncated

\* generateThreadTitle(messages)
generateThreadTitle(messages) ==
    LET users == SelectSeq(messages, IsUser)
    IN  IF users = <<>> THEN NewChat
        ELSE LET text == titleText(users[1].content)
                 truncated == substring(text, titleLimit)
             IN  IF Len(truncated) < Len(text) THEN truncated \o Ellipsis
                 ELSE IF truncated = <<>> THEN NewChat
                 ELSE truncated

ChatThread(id, messages, title, status) ==
    [id |-> id, messages |-> messages, title |-> title, status |-> status]

\* createInitialThread(), with the id the caller gives it
createInitialThread(id) == ChatThread(id, <<>>, NewChat, "regular")

Null == [kind |-> "null"]
Migrated(ts) == [kind |-> "threads", threads |-> ts]

\* the threads migrateOldData builds from a parsed legacy document
convertedThreads(doc) ==
    [i \in DOMAIN doc.threads |->
        ChatThread(doc.threads[i].id, doc.threads[i].messages,
                   generateThreadTitle(doc.threads[i].messages), "regular")]

\* migrateOldData without its removeItem
migrateOldDataKeepingKey(store) ==
    IF store.kind = "doc"
    THEN [returned |-> Migrated(convertedThreads(store)), store |-> store]
    ELSE [returned |-> Null, store |-> store]

\* migrateOldData(): what it returns and what it leaves under the legacy key
migrateOldData(store) ==
    IF store.kind = "doc"
    THEN [returned |-> Migrated(convertedThreads(store)), store |-> NoDoc]
    ELSE [returned |-> Null, store |-> store]

\* partialize(state), as written by the persist middleware
ChatDoc(cur, ts) == [kind |-> "doc", currentThreadId |-> cur, threads |-> ts]

\* the initial state of the store: migrateOldData() || { main: ... }
\* (an empty object is truthy, so an empty migration result is kept)
initialThreads(returned) ==
    IF returned.kind = "threads" THEN returned.threads
    ELSE <<createInitialThread(MainId)>>

\* Evaluation of the store module at page load: the initial state is built
\* (running the migration), then the persisted document, when there is one,
\* is merged over it.  Whether the middleware writes the merged state back
\* at once depends on its version; both are allowed.
Boot ==
    LET m == migrateOldData(legacyStore)
        hydrated == chatStorage.kind = "doc"
        ts == IF hydrated THEN chatStorage.threads ELSE initialThreads(m.returned)
        cur == IF hydrated THEN chatStorage.currentThreadId ELSE MainId
    IN  /\ Len(migrations) < MaxBoots
        /\ migrations' = Append(migrations,
                [before |-> legacyStore, returned |-> m.returned, after |-> m.store])
        /\ loaded' = TRUE
        /\ legacyStore' = m.store
        /\ threads' = ts
        /\ currentThreadId' = cur
        /\ isRunning' = FALSE
        /\ \E writeBack \in BOOLEAN :
              chatStorage' = IF writeBack THEN ChatDoc(cur, ts) ELSE chatStorage
        /\ last' = [op |-> "boot", onCurrent |-> FALSE]
        /\ streams' = <<>>
        /\ UNCHANGED <<now, call, saves, nextId, request>>
        /\ UNCHANGED projectVars
        /\ UNCHANGED hookVars

\* every set() of the store is followed by a write of partialize(state)
Persisted(cur, ts) == chatStorage' = ChatDoc(cur, ts)

\* the operation just performed, and whether its argument named the current,
\* existing thread
Did(op, id) ==
    [op |-> op, id |-> id,
     onCurrent |-> (id = currentThreadId /\ HasId(threads, id))]


IsRegular(t) == t.status = "regular"

\* the reselection shared by deleteThread and archiveThread: the first
\* regular thread, or a freshly created one
Reselected(ts) ==
    LET regularThreads == SelectSeq(ts, IsRegular)
    IN  IF regularThreads # <<>>
        THEN [threads |-> ts, current |-> regularThreads[1].id, used |-> 0]
        ELSE [threads |-> Append(ts, createInitialThread(generateId(nextId + 1))),
              current |-> generateId(nextId + 1), used |-> 1]

\* deleteThread that leaves currentThreadId alone
deleteThreadNoReselect(id) ==
    /\ loaded
    /\ threads' = Remove(threads, id)
    /\ Persisted(currentThreadId, threads')
    /\ last' = Did("deleteThread", id)
    /\ UNCHANGED <<currentThreadId, nextId, isRunning, loaded, migrations, streams>>
    /\ UNCHANGED storageVars
    /\ UNCHANGED request
    /\ UNCHANGED projectVars
    /\ UNCHANGED hookVars

\* deleteThread(id)
deleteThread(id) ==
    LET removed == Remove(threads, id)
        r == IF currentThreadId = id THEN Reselected(removed)
             ELSE [threads |-> removed, current |-> currentThreadId, used |-> 0]
    IN  /\ loaded
        /\ nextId + r.used <= MaxIds
        /\ threads' = r.threads
        /\ currentThreadId' = r.current
        /\ nextId' = nextId + r.used
        /\ Persisted(r.current, r.threads)
        /\ last' = Did("deleteThread", id)
        /\ UNCHANGED <<isRunning, loaded, migrations, streams>>
        /\ UNCHANGED storageVars
        /\ UNCHANGED request
        /\ UNCHANGED projectVars
        /\ UNCHANGED hookVars

\* setCurrentThreadId(id)
setCurrentThreadId(id) ==
    /\ loaded
    /\ currentThreadId' = IF HasId(threads, id) THEN id ELSE currentThreadId
    /\ Persisted(currentThreadId', threads)
    /\ last' = Did("setCurrentThreadId", id)
    /\ UNCHANGED <<threads, nextId, isRunning, loaded, migrations, streams>>
    /\ UNCHANGED storageVars
    /\ UNCHANGED request
    /\ UNCHANGED projectVars
    /\ UNCHANGED hookVars

\* createNewThread(model)
createNewThread ==
    LET newId == generateId(nextId + 1)
    IN  /\ loaded
        /\ nextId < MaxIds
        /\ nextId' = nextId + 1
        /\ threads' = Put(threads, createInitialThread(newId))
        /\ currentThreadId' = newId
        /\ Persisted(newId, threads')
        /\ last' = Did("createNewThread", newId)
        /\ UNCHANGED <<isRunning, loaded, migrations, streams>>
        /\ UNCHANGED storageVars
        /\ UNCHANGED request
        /\ UNCHANGED projectVars
        /\ UNCHANGED hookVars

SetStatus(ts, id, st) ==
    [i \in DOMAIN ts |-> IF ts[i].id = id THEN [ts[i] EXCEPT !.status = st] ELSE ts[i]]

\* archiveThread that leaves currentThreadId alone
archiveThreadNoReselect(id) ==
    /\ loaded
    /\ threads' = SetStatus(threads, id, "archived")
    /\ Persisted(currentThreadId, threads')
    /\ last' = Did("archiveThread", id)
    /\ UNCHANGED <<currentThreadId, nextId, isRunning, loaded, migrations, streams>>
    /\ UNCHANGED storageVars
    /\ UNCHANGED request
    /\ UNCHANGED projectVars
    /\ UNCHANGED hookVars

\* archiveThread(id)
archiveThread(id) ==
    LET archived == SetStatus(threads, id, "archived")
        r == IF HasId(threads, id) /\ currentThreadId = id THEN Reselected(archived)
             ELSE [threads |-> archived, current |-> currentThreadId, used |-> 0]
    IN  /\ loaded
        /\ nextId + r.used <= MaxIds
        /\ threads' = r.threads
        /\ currentThreadId' = r.current
        /\ nextId' = nextId + r.used
        /\ Persisted(r.current, r.threads)
        /\ last' = Did("archiveThread", id)
        /\ UNCHANGED <<isRunning, loaded, migrations, streams>>
        /\ UNCHANGED storageVars
        /\ UNCHANGED request
        /\ UNCHANGED projectVars
        /\ UNCHANGED hookVars

\* unarchiveThread(id)
unarchiveThread(id) ==
    /\ loaded
    /\ threads' = SetStatus(threads, id, "regular")
    /\ Persisted(currentThreadId, threads')
    /\ last' = Did("unarchiveThread", id)
    /\ UNCHANGED <<currentThreadId, nextId, isRunning, loaded, migrations, streams>>
    /\ UNCHANGED storageVars
    /\ UNCHANGED request
    /\ UNCHANGED projectVars
    /\ UNCHANGED hookVars

\* state.threads[id].title = title
SetTitle(ts, id, title) ==
    [i \in DOMAIN ts |-> IF ts[i].id = id THEN [ts[i] EXCEPT !.title = title] ELSE ts[i]]

\* renameThread(id, title)
renameThread(id, title) ==
    /\ loaded
    /\ threads' = SetTitle(threads, id, title)
    /\ Persisted(currentThreadId, threads')
    /\ last' = [op |-> "renameThread", id |-> id, title |-> title,
                onCurrent |-> (id = currentThreadId /\ HasId(threads, id))]
    /\ UNCHANGED <<currentThreadId, nextId, isRunning, loaded, migrations, streams>>
    /\ UNCHANGED storageVars
    /\ UNCHANGED request
    /\ UNCHANGED projectVars
    /\ UNCHANGED hookVars

\* clearAllThreads()
clearAllThreads ==
    LET newId == generateId(nextId + 1)
    IN  /\ loaded
        /\ nextId < MaxIds
        /\ nextId' = nextId + 1
        /\ threads' = <<createInitialThread(newId)>>
        /\ currentThreadId' = newId
        /\ isRunning' = FALSE
        /\ Persisted(newId, threads')
        /\ last' = Did("clearAllThreads", newId)
        /\ UNCHANGED <<loaded, migrations, streams>>
        /\ UNCHANGED storageVars
        /\ UNCHANGED request
        /\ UNCHANGED projectVars
        /\ UNCHANGED hookVars

(***************************************************************************)
(* The chat store across page loads (SpecChat)                             *)
(***************************************************************************)
LongQuestion == [i \in 1..(titleLimit + 1) |-> 97]     \* "aaa...a", 51 long

AsksLong == <<Msg(104, "user", Parts(<<TextPart(LongQuestion)>>), <<>>, NoStatus)>>
AsksNothing == <<Msg(105, "user", Str(<<>>), <<>>, NoStatus)>>
OnlyAnswer == <<Msg(106, "assistant", Parts(<<TextPart(Reply)>>), <<>>, Complete)>>

\* documents found under the legacy key at the first page load: none, an
\* unparseable one, one without threads, and documents written by saveThreads
LegacyDocs ==
    {NoDoc, Corrupt, Doc(<<>>, MainId),
     persistedData(NoDoc, SaveData(MainId, Answered), 1),
     persistedData(NoDoc, SaveData(MainId, AsksLong), 1),
     persistedData(NoDoc, SaveData(11, AsksNothing), 1),
     persistedData(persistedData(NoDoc, SaveData(MainId, OnlyAnswer), 1),
                   SaveData(11, TextOnly), 2)}

\* thread ids passed to the store: those of the threads it holds, "main",
\* and the id of a thread it may not hold
KnownIds == Ids(threads) \cup {MainId, 11}

InitChat ==
    /\ legacyStore \in LegacyDocs
    /\ now = 1
    /\ call = NoCall
    /\ saves = 0
    /\ chatStorage = NoDoc
    /\ loaded = FALSE
    /\ threads = <<>>
    /\ currentThreadId = MainId
    /\ isRunning = FALSE
    /\ nextId = 0
    /\ migrations = <<>>
    /\ last = NoOp
    /\ streams = <<>>
    /\ request = NoCall
    /\ projects = <<>>
    /\ projectThreadId = Undefined
    /\ titled = NoCall
    /\ hook = NoHook
    /\ selectedModel = NoModel
    /\ threadModel = <<>>
    /\ provider = Unmounted

NextChat ==
    \/ Boot
    \/ createNewThread
    \/ clearAllThreads
    \/ \E id \in KnownIds : deleteThread(id)
    \/ \E id \in KnownIds : archiveThread(id)
    \/ \E id \in KnownIds : unarchiveThread(id)
    \/ \E id \in KnownIds : setCurrentThreadId(id)

SpecChat == InitChat /\ [][NextChat]_vars

(***************************************************************************)
(* Claims about the chat store (SpecChat)                                  *)
(***************************************************************************)
NonEmptyAndCurrent == threads # <<>> /\ HasId(threads, currentThreadId)

\* the step is deleteThread(id) with id the current, existing thread
DeletesCurrent ==
    /\ last'.op = "deleteThread"
    /\ last'.onCurrent

RegularLeft ==
    \E t \in Range(threads) : t.id # currentThreadId /\ t.status = "regular"

\* C2: deleting the thread that is current (and exists) leaves a non-empty
\* threads map whose keys are the other threads, and a currentThreadId that is
\* a key of it and is not the deleted id; when no regular thread is left the
\* current thread is a new, empty, regular one.
C2_DeleteCurrentReselects ==
    [][DeletesCurrent =>
        /\ NonEmptyAndCurrent'
        /\ currentThreadId' # currentThreadId
        /\ ~HasId(threads', currentThreadId)
        /\ Ids(threads) \ {currentThreadId} \subseteq Ids(threads')
        /\ RegularLeft =>
              /\ currentThreadId' \in Ids(threads)
              /\ Ids(threads') = Ids(threads) \ {currentThreadId}
        /\ ~RegularLeft =>
              /\ ~HasId(threads, currentThreadId')
              /\ Ids(threads') = (Ids(threads) \ {currentThreadId}) \cup {currentThreadId'}
              /\ Get(threads', currentThreadId').messages = <<>>
              /\ Get(threads', currentThreadId').status = "regular"
    ]_vars

\* the current thread was just deleted while only archived threads were
\* left: a new empty thread is current
C2_Witness ==
    /\ last.op = "deleteThread"
    /\ last.onCurrent
    /\ Len(threads) >= 2
    /\ \A t \in Range(threads) : t.id # currentThreadId => t.status = "archived"
    /\ HasId(threads, currentThreadId)
    /\ Get(threads, currentThreadId).messages = <<>>

\* C3: once the store is initialized, whatever the legacy document held, the
\* threads map is never empty and currentThreadId is one of its keys.
C3_NeverEmptyNorDangling == loaded => NonEmptyAndCurrent

\* what the store operations do guarantee: none of them breaks the
\* invariant of C3; only the page load does
C3_OperationsPreserve ==
    [][(loaded /\ NonEmptyAndCurrent /\ last'.op # "boot") => NonEmptyAndCurrent']_vars

\* the one text part (or the string) of a message content of the documents above
SoleText(content) ==
    IF content.tag = "string" THEN content.text ELSE content.parts[1].text

\* title is the label of C14 for these messages
TitleDerived(title, messages) ==
    LET users == {i \in DOMAIN messages : messages[i].role = "user"}
    IN  IF users = {} THEN title = NewChat
        ELSE LET first == CHOOSE i \in users : \A j \in users : i <= j
                 t == SoleText(messages[first].content)
             IN  /\ t = <<>> => title = NewChat
                 /\ (t # <<>> /\ Len(t) <= titleLimit) => title = t
                 /\ Len(t) > titleLimit =>
                       /\ Len(title) = titleLimit + 3
                       /\ \A i \in 1..titleLimit : title[i] = t[i]
                       /\ \A i \in 1..3 : title[titleLimit + i] = 46

ConvertedFrom(returned, doc) ==
    /\ returned.kind = "threads"
    /\ Len(returned.threads) = Len(doc.threads)
    /\ \A i \in DOMAIN doc.threads :
          /\ returned.threads[i].id = doc.threads[i].id
          /\ returned.threads[i].messages = doc.threads[i].messages
          /\ returned.threads[i].status = "regular"
          /\ TitleDerived(returned.threads[i].title, doc.threads[i].messages)

\* C10: a migrateOldData call that finds a parseable legacy document returns
\* its threads converted (same ids and messages, status regular, title
\* derived from the messages) and leaves the legacy key absent; the call that
\* follows it finds no key, returns null and leaves the storage as it was.
C10_MigrationIdempotent ==
    \A k \in DOMAIN migrations :
        /\ migrations[k].before.kind = "doc" =>
              /\ ConvertedFrom(migrations[k].returned, migrations[k].before)
              /\ migrations[k].after = NoDoc
        /\ (k > 1 /\ migrations[k - 1].before.kind = "doc") =>
              /\ migrations[k].before = NoDoc
              /\ migrations[k].returned = Null
              /\ migrations[k].after = NoDoc
        /\ k = Len(migrations) => legacyStore = migrations[k].after

\* a second call after a migration that converted two threads, one of them
\* with a truncated title elsewhere in the run
C10_Witness ==
    /\ Len(migrations) = 2
    /\ migrations[1].before.kind = "doc"
    /\ Len(migrations[1].returned.threads) >= 1
    /\ migrations[2].returned = Null

(***************************************************************************)
(* settings-store.ts: message management of the chat store                 *)
(* Each operation acts on state.threads[state.currentThreadId] as it is    *)
(* when the operation runs, and does nothing when there is no such thread. *)
(***************************************************************************)
\* getCurrentMessages(): thread?.messages || []
getCurrentMessages ==
    IF HasId(threads, currentThreadId) THEN Get(threads, currentThreadId).messages
    ELSE <<>>

\* setMessages(messages) in a store holding ts with cur current
setMessages(ts, cur, messages) ==
    [i \in DOMAIN ts |->
        IF ts[i].id = cur THEN [ts[i] EXCEPT !.messages = messages] ELSE ts[i]]

\* addMessage(message)
addMessage(ts, cur, message) ==
    [i \in DOMAIN ts |->
        IF ts[i].id = cur
        THEN LET pushed == Append(ts[i].messages, message)
             IN  [ts[i] EXCEPT
                    !.messages = pushed,
                    !.title = IF message.role = "user" /\ Len(pushed) = 1
                              THEN generateThreadTitle(pushed) ELSE @]
        ELSE ts[i]]

\* messages.findIndex((m) => m.id === id): a 0-based index, or -1
findIndex(messages, id) ==
    IF \E i \in DOMAIN messages : messages[i].id = id
    THEN (CHOOSE i \in DOMAIN messages :
            /\ messages[i].id = id
            /\ \A j \in 1..(i - 1) : messages[j].id # id) - 1
    ELSE -1

\* the Partial<ThreadMessageLike> objects the runtime passes to updateMessage
ContentUpdate(text) == [field |-> "content", value |-> Parts(<<TextPart(text)>>)]
StatusUpdate(status) == [field |-> "status", value |-> status]

\* { ...message, ...updates }
merge(message, updates) ==
    IF updates.field = "content" THEN [message EXCEPT !.content = updates.value]
    ELSE [message EXCEPT !.status = updates.value]

\* updateMessage(id, updates)
updateMessage(ts, cur, id, updates) ==
    [i \in DOMAIN ts |->
        IF ts[i].id = cur /\ findIndex(ts[i].messages, id) # -1
        THEN [ts[i] EXCEPT
                !.messages[findIndex(ts[i].messages, id) + 1] = merge(@, updates)]
        ELSE ts[i]]

(***************************************************************************)
(* ollama-external-runtime.tsx: onNew, onReload, onEdit and the response   *)
(* stream.  A handler runs without interruption up to the first await of   *)
(* streamOllamaResponse (the chat request); after that every fragment, the *)
(* end of the stream and a throw of the client are steps of their own,     *)
(* between which the user may act on the thread list.  The thread's model  *)
(* name is not modelled (onNew's updateThreadModel changes nothing else).  *)
(***************************************************************************)
MaxStreams == 1

\* the n-th identifier handed out by generateMessageId (crypto.randomUUID)
generateMessageId(n) == 2000 + n

\* parentId === null
NullId == -1

\* the message of the Error thrown by the client
Failure == "fetch failed"

\* the response of the model server: chunk.message.content of its fragments,
\* "a" then "b"; the stream may end, or the client throw, after any of them
Response == <<<<97>>, <<98>>>>

\* messages.slice(0, end)
slice(messages, end) ==
    SubSeq(messages, 1, IF end < Len(messages) THEN end ELSE Len(messages))

\* the optimistic assistant message of streamOllamaResponse
assistantMessage(id) ==
    Msg(id, "assistant", Parts(<<TextPart(<<>>)>>), <<>>, Running)

\* a streamOllamaResponse call: its assistantId, its accumulatedText and where
\* it stands; the other fields are observations (the handler that made the
\* call and its parentId, the thread that was current then, the fragments
\* received, the texts passed to updateMessage)
NewStream(assistantId, op, parentId) ==
    [assistantId |-> assistantId, pc |-> "streaming", accumulatedText |-> <<>>,
     op |-> op, parentId |-> parentId, thread |-> currentThreadId,
     frags |-> <<>>, emitted |-> <<>>]

\* a handler returns before touching the store
Returns ==
    /\ UNCHANGED chatVars
    /\ UNCHANGED storageVars
    /\ UNCHANGED request
    /\ UNCHANGED projectVars
    /\ UNCHANGED hookVars

\* streamOllamaResponse(...) up to the await of ollamaClient.chat, called by
\* handler op once its own store calls have left the threads ts
streamOllamaResponse(ts, op, parentId) ==
    LET assistantId == generateMessageId(2 * Len(streams) + 2)
    IN  /\ threads' = addMessage(ts, currentThreadId, assistantMessage(assistantId))
        /\ isRunning' = TRUE
        /\ streams' = Append(streams, NewStream(assistantId, op, parentId))
        /\ Persisted(currentThreadId, threads')
        /\ UNCHANGED <<currentThreadId, loaded, nextId, migrations, last>>
        /\ UNCHANGED storageVars
        /\ UNCHANGED request
        /\ UNCHANGED projectVars
        /\ UNCHANGED hookVars

\* a stream the model starts with has op "earlier"; the others were issued
\* by a handler of the run
IsIssued(s) == s.op # "earlier"
Issued(ss) == Len(SelectSeq(ss, IsIssued))

\* onNew(message)
onNew(content) ==
    LET userMessage == Msg(generateMessageId(2 * Len(streams) + 1), "user",
                           content, <<>>, NoStatus)
    IN  /\ loaded
        /\ Issued(streams) < MaxStreams
        /\ streamOllamaResponse(addMessage(threads, currentThreadId, userMessage),
                                "onNew", NullId)

\* onReload whose cutoff leaves the parent out
onReloadBeforeParent(parentId) ==
    LET currentMessages == getCurrentMessages
        parentIndex == findIndex(currentMessages, parentId)
        cutoffIndex == IF parentId = NullId THEN 0 ELSE parentIndex
        messagesUpToParent == slice(currentMessages, cutoffIndex)
    IN  /\ loaded
        /\ Issued(streams) < MaxStreams
        /\ IF parentId # NullId /\ parentIndex = -1
           THEN Returns
           ELSE streamOllamaResponse(
                    setMessages(threads, currentThreadId, messagesUpToParent),
                    "onReload", parentId)

\* onReload(parentId)
onReload(parentId) ==
    LET currentMessages == getCurrentMessages
        parentIndex == findIndex(currentMessages, parentId)
        cutoffIndex == IF parentId = NullId THEN 0 ELSE parentIndex + 1
        messagesUpToParent == slice(currentMessages, cutoffIndex)
    IN  /\ loaded
        /\ Issued(streams) < MaxStreams
        /\ IF parentId # NullId /\ parentIndex = -1
           THEN Returns
           ELSE streamOllamaResponse(
                    setMessages(threads, currentThreadId, messagesUpToParent),
                    "onReload", parentId)

\* onEdit that appends the edited message to the whole thread
onEditKeepingAll(parentId, content) ==
    LET currentMessages == getCurrentMessages
        parentIndex == findIndex(currentMessages, parentId)
        messagesUpToParent == IF parentId = NullId THEN <<>> ELSE currentMessages
        editedMessage == Msg(generateMessageId(2 * Len(streams) + 1), "user",
                             content, <<>>, NoStatus)
        newMessages == Append(messagesUpToParent, editedMessage)
    IN  /\ loaded
        /\ Issued(streams) < MaxStreams
        /\ IF parentId # NullId /\ parentIndex = -1
           THEN Returns
           ELSE streamOllamaResponse(
                    setMessages(threads, currentThreadId, newMessages),
                    "onEdit", parentId)

\* onEdit(message), message carrying parentId and content
onEdit(parentId, content) ==
    LET currentMessages == getCurrentMessages
        parentIndex == findIndex(currentMessages, parentId)
        messagesUpToParent == IF parentId = NullId THEN <<>>
                              ELSE slice(currentMessages, parentIndex + 1)
        editedMessage == Msg(generateMessageId(2 * Len(streams) + 1), "user",
                             content, <<>>, NoStatus)
        newMessages == Append(messagesUpToParent, editedMessage)
    IN  /\ loaded
        /\ Issued(streams) < MaxStreams
        /\ IF parentId # NullId /\ parentIndex = -1
           THEN Returns
           ELSE streamOllamaResponse(
                    setMessages(threads, currentThreadId, newMessages),
                    "onEdit", parentId)

\* a fragment arrives: accumulatedText += delta; updateMessage(assistantId, ...)
Chunk(s) ==
    LET delta == Response[Len(streams[s].frags) + 1]
        text == streams[s].accumulatedText \o delta
    IN  /\ loaded
        /\ streams[s].pc = "streaming"
        /\ Len(streams[s].frags) < Len(Response)
        /\ threads' = updateMessage(threads, currentThreadId, streams[s].assistantId,
                                    ContentUpdate(text))
        /\ streams' = [streams EXCEPT ![s] =
                          [@ EXCEPT !.accumulatedText = text,
                                    !.frags = Append(@, delta),
                                    !.emitted = Append(@, text)]]
        /\ Persisted(currentThreadId, threads')
        /\ UNCHANGED <<currentThreadId, isRunning, loaded, nextId, migrations, last>>
        /\ UNCHANGED storageVars
        /\ UNCHANGED request
        /\ UNCHANGED projectVars
        /\ UNCHANGED hookVars

\* the stream ends: the message is marked complete, then setIsRunning(false)
StreamEnds(s) ==
    /\ loaded
    /\ streams[s].pc = "streaming"
    /\ threads' = updateMessage(threads, currentThreadId, streams[s].assistantId,
                                StatusUpdate(Complete))
    /\ isRunning' = FALSE
    /\ streams' = [streams EXCEPT ![s].pc = "done"]
    /\ Persisted(currentThreadId, threads')
    /\ UNCHANGED <<currentThreadId, loaded, nextId, migrations, last>>
    /\ UNCHANGED storageVars
    /\ UNCHANGED request
    /\ UNCHANGED projectVars
    /\ UNCHANGED hookVars

\* the client throws, at the chat request or at a fragment: the catch block
\* calls setIsRunning(false), then marks the message incomplete
StreamThrows(s) ==
    /\ loaded
    /\ streams[s].pc = "streaming"
    /\ isRunning' = FALSE
    /\ threads' = updateMessage(threads, currentThreadId, streams[s].assistantId,
                                StatusUpdate(Incomplete(Failure)))
    /\ streams' = [streams EXCEPT ![s].pc = "failed"]
    /\ Persisted(currentThreadId, threads')
    /\ UNCHANGED <<currentThreadId, loaded, nextId, migrations, last>>
    /\ UNCHANGED storageVars
    /\ UNCHANGED request
    /\ UNCHANGED projectVars
    /\ UNCHANGED hookVars

(***************************************************************************)
(* Conversations in a loaded page (SpecStream)                             *)
(***************************************************************************)
Edited == <<69, 100>>                                  \* "Ed"

\* a thread [A, B, C, D]: two questions, each with its answer
Conversation ==
    <<Msg(201, "user", Parts(<<TextPart(Hello)>>), <<>>, NoStatus),
      Msg(202, "assistant", Parts(<<TextPart(Reply)>>), <<>>, Complete),
      Msg(203, "user", Str(Hello), <<>>, NoStatus),
      Msg(204, "assistant", Parts(<<TextPart(Reply)>>), <<>>, Complete)>>

\* the threads of the store once the page is loaded: it was hydrated with a
\* conversation and an empty thread
LoadedThreads ==
    <<ChatThread(MainId, Conversation, generateThreadTitle(Conversation), "regular"),
      createInitialThread(11)>>

\* an id that no message carries
UnknownId == 999

\* parentId values passed by the UI: null, the id of a message shown, and an
\* id that is not in the thread
ParentIds == {m.id : m \in Range(getCurrentMessages)} \cup {NullId, UnknownId}

InitStream ==
    /\ legacyStore = NoDoc
    /\ now = 1
    /\ call = NoCall
    /\ saves = 0
    /\ threads = LoadedThreads
    /\ currentThreadId = MainId
    /\ chatStorage = ChatDoc(MainId, threads)
    /\ loaded = TRUE
    /\ isRunning = FALSE
    /\ nextId = 0
    /\ migrations = <<>>
    /\ last = NoOp
    /\ streams = <<>>
    /\ request = NoCall
    /\ projects = <<>>
    /\ projectThreadId = Undefined
    /\ titled = NoCall
    /\ hook = NoHook
    /\ selectedModel = NoModel
    /\ threadModel = <<>>
    /\ provider = Unmounted

NextStream ==
    \/ onNew(Parts(<<TextPart(Hello)>>))
    \/ \E parentId \in ParentIds : onReload(parentId)
    \/ \E parentId \in ParentIds : onEdit(parentId, Parts(<<TextPart(Edited)>>))
    \/ \E s \in DOMAIN streams : Chunk(s)
    \/ \E s \in DOMAIN streams : StreamEnds(s)
    \/ \E s \in DOMAIN streams : StreamThrows(s)
    \/ \E id \in Ids(threads) : setCurrentThreadId(id)

SpecStream == InitStream /\ [][NextStream]_vars

(***************************************************************************)
(* Claims about the handlers and the response stream (SpecStream)          *)
(***************************************************************************)
\* the step is a call of handler op that went on to streamOllamaResponse
Started(op) ==
    /\ Len(streams') = Len(streams) + 1
    /\ streams'[Len(streams')].op = op

MessageIds(messages) == {messages[i].id : i \in DOMAIN messages}

\* the last message of the current thread after the step is the new, empty,
\* running assistant message of the stream just started, and no other thread
\* has changed
AppendsNewAssistant ==
    LET new == getCurrentMessages'
        a == new[Len(new)]
    IN  /\ currentThreadId' = currentThreadId
        /\ HasId(threads', currentThreadId)
        /\ new # <<>>
        /\ a.role = "assistant"
        /\ a.id = streams'[Len(streams')].assistantId
        /\ a.id \notin MessageIds(getCurrentMessages)
        /\ a.status = Running
        /\ a.content = Parts(<<TextPart(<<>>)>>)
        /\ Ids(threads') = Ids(threads)
        /\ \A id \in Ids(threads) \ {currentThreadId} :
              Get(threads', id) = Get(threads, id)

\* C4: onReload(parentId), parentId being the id of the message at index i of
\* the current thread, leaves the thread with its first i+1 messages followed
\* by exactly one new assistant message (with parentId null: with that new
\* message alone); [A,B,C,D] reloaded at B becomes [A,B,newAssistant].
C4_ReloadTruncatesThenAppends ==
    [][(Started("onReload") /\ HasId(threads, currentThreadId)) =>
          LET old == getCurrentMessages
              new == getCurrentMessages'
              parentId == streams'[Len(streams')].parentId
          IN  /\ AppendsNewAssistant
              /\ parentId = NullId => Len(new) = 1
              /\ \A i \in 0..(Len(old) - 1) :
                    old[i + 1].id = parentId =>
                        /\ Len(new) = i + 2
                        /\ SubSeq(new, 1, i + 1) = SubSeq(old, 1, i + 1)
      ]_vars

\* the conversation [A,B,C,D] was reloaded at B and is now [A,B,newAssistant]
C4_Witness ==
    /\ Len(streams) = 1
    /\ streams[1].op = "onReload"
    /\ streams[1].parentId = Conversation[2].id
    /\ currentThreadId = MainId
    /\ Len(getCurrentMessages) = 3
    /\ SubSeq(getCurrentMessages, 1, 2) = SubSeq(Conversation, 1, 2)
    /\ getCurrentMessages[3].id = streams[1].assistantId

\* C5: onEdit with parentId the id of the message at index i leaves the
\* current thread with its first i+1 messages (none when parentId is null),
\* then one new user message carrying the edited content, then one new
\* assistant message; [A,B,C,D] edited after A becomes [A,user(C'),newAssistant].
C5_EditTruncatesThenAppends ==
    [][(Started("onEdit") /\ HasId(threads, currentThreadId)) =>
          LET old == getCurrentMessages
              new == getCurrentMessages'
              parentId == streams'[Len(streams')].parentId
              kept == Len(new) - 2
          IN  /\ AppendsNewAssistant
              /\ Len(new) >= 2
              /\ new[kept + 1].role = "user"
              /\ new[kept + 1].content = Parts(<<TextPart(Edited)>>)
              /\ new[kept + 1].id \notin MessageIds(old)
              /\ new[kept + 1].id # new[kept + 2].id
              /\ SubSeq(new, 1, kept) = SubSeq(old, 1, kept)
              /\ parentId = NullId => kept = 0
              /\ \A i \in 0..(Len(old) - 1) :
                    old[i + 1].id = parentId => kept = i + 1
      ]_vars

\* the conversation [A,B,C,D] was edited after A and is now
\* [A, user("Ed"), newAssistant]
C5_Witness ==
    /\ Len(streams) = 1
    /\ streams[1].op = "onEdit"
    /\ streams[1].parentId = Conversation[1].id
    /\ currentThreadId = MainId
    /\ Len(getCurrentMessages) = 3
    /\ getCurrentMessages[1] = Conversation[1]
    /\ getCurrentMessages[2].role = "user"
    /\ getCurrentMessages[2].content = Parts(<<TextPart(Edited)>>)
    /\ getCurrentMessages[3].id = streams[1].assistantId

\* f1 + ... + fn
RECURSIVE Concat(_)
Concat(frags) ==
    IF frags = <<>> THEN <<>> ELSE frags[1] \o Concat(Tail(frags))

\* the assistant message of stream s is (still) in the thread where the
\* request was issued
InThread(ts, s) ==
    /\ HasId(ts, streams[s].thread)
    /\ streams[s].assistantId \in MessageIds(Get(ts, streams[s].thread).messages)

StreamMessage(ts, s) ==
    LET ms == Get(ts, streams[s].thread).messages
    IN  ms[CHOOSE i \in DOMAIN ms : ms[i].id = streams[s].assistantId]

\* C6: after the k-th fragment of a stream its assistant message holds the
\* single text part f1+...+fk, one update having been emitted per fragment in
\* arrival order, each carrying the full text so far; and the message is
\* complete only once the stream has ended without error.
C6_StreamAccumulates ==
    \A s \in DOMAIN streams :
        /\ Len(streams[s].emitted) = Len(streams[s].frags)
        /\ \A k \in DOMAIN streams[s].emitted :
              streams[s].emitted[k] = Concat(SubSeq(streams[s].frags, 1, k))
        /\ InThread(threads, s) =>
              /\ StreamMessage(threads, s).content =
                    Parts(<<TextPart(Concat(streams[s].frags))>>)
              /\ StreamMessage(threads, s).status = Complete => streams[s].pc = "done"

\* what the stream does guarantee: the updates it emits are the accumulated
\* texts, in order, and a fragment that arrives while the thread of the
\* request is current leaves the message with the full text so far
C6_EmitsAccumulatedText ==
    \A s \in DOMAIN streams :
        /\ Len(streams[s].emitted) = Len(streams[s].frags)
        /\ \A k \in DOMAIN streams[s].emitted :
              streams[s].emitted[k] = Concat(SubSeq(streams[s].frags, 1, k))
        /\ (InThread(threads, s) /\ StreamMessage(threads, s).status = Complete) =>
              streams[s].pc = "done"

C6_AppliedWhileCurrent ==
    [][\A s \in DOMAIN streams :
          (/\ Len(streams'[s].frags) = Len(streams[s].frags) + 1
           /\ InThread(threads, s)
           /\ currentThreadId = streams[s].thread) =>
              StreamMessage(threads, s)'.content =
                  Parts(<<TextPart(Concat(streams'[s].frags))>>)
      ]_vars

\* the step is the catch block of stream s
Throws(s) == streams[s].pc = "streaming" /\ streams'[s].pc = "failed"

\* the step changed nothing in the threads but the status of the message of s
OnlyStatusChanged(s, status) ==
    /\ Ids(threads') = Ids(threads)
    /\ \A id \in Ids(threads) :
          /\ Get(threads', id).status = Get(threads, id).status
          /\ Len(Get(threads', id).messages) = Len(Get(threads, id).messages)
          /\ \A i \in DOMAIN Get(threads, id).messages :
                LET old == Get(threads, id).messages[i]
                    new == Get(threads', id).messages[i]
                IN  IF id = streams[s].thread /\ old.id = streams[s].assistantId
                    THEN new = [old EXCEPT !.status = status]
                    ELSE new = old

\* C7: when the client throws, at the request or at a fragment, the in-flight
\* assistant message becomes incomplete with the error's message, keeps the
\* text it had, isRunning becomes false and every other message is unchanged.
C7_ErrorMarksIncomplete ==
    [][\A s \in DOMAIN streams :
          (Throws(s) /\ InThread(threads, s)) =>
              /\ OnlyStatusChanged(s, Incomplete(Failure))
              /\ StreamMessage(threads, s)'.status = Incomplete(Failure)
              /\ ~isRunning'
      ]_vars

\* what the catch block does guarantee: the claim of C7 when the thread of
\* the request is current at the throw, and in every case isRunning false and
\* no message changed but the in-flight one
C7_WhileCurrent ==
    [][\A s \in DOMAIN streams :
          (Throws(s) /\ InThread(threads, s)) =>
              /\ ~isRunning'
              /\ currentThreadId = streams[s].thread =>
                    OnlyStatusChanged(s, Incomplete(Failure))
              /\ currentThreadId # streams[s].thread => threads' = threads
      ]_vars

\* a failed stream's message is never complete
C7_NeverComplete ==
    \A s \in DOMAIN streams :
        (streams[s].pc = "failed" /\ InThread(threads, s)) =>
            StreamMessage(threads, s).status # Complete

(***************************************************************************)
(* Further claims about the chat store (SpecChat)                          *)
(***************************************************************************)
\* the threads of the legacy document doc are all in the persisted document
\* of the chat store
PersistedFrom(doc) ==
    /\ chatStorage.kind = "doc"
    /\ Ids(doc.threads) \subseteq Ids(chatStorage.threads)

\* C11: right after a page load that migrated a legacy document, the legacy
\* key is absent only if the migrated threads are in the persisted document
\* of the chat store: the upgraded document is written before the legacy key
\* is removed.
C11_WrittenBeforeLegacyRemoved ==
    (/\ last.op = "boot"
     /\ migrations # <<>>
     /\ migrations[Len(migrations)].before.kind = "doc"
     /\ migrations[Len(migrations)].before.threads # <<>>
     /\ legacyStore = NoDoc) =>
        PersistedFrom(migrations[Len(migrations)].before)

(***************************************************************************)
(* ollama-external-runtime.tsx, ollama-project-runtime.tsx: the chat       *)
(* request built by streamOllamaResponse (SpecRequest)                     *)
(***************************************************************************)
MaxMessages == 2

Comma == 44                                            \* ","

\* s.includes(c)
includes(s, c) == \E i \in DOMAIN s : s[i] = c

\* s.indexOf(c), 1-based, for a string that includes c
indexOf(s, c) == CHOOSE i \in DOMAIN s : s[i] = c /\ \A j \in 1..(i - 1) : s[j] # c

\* s.split(c)[1]: what lies between the first c and the next one (or the end)
splitSecond(s, c) ==
    LET rest == SubSeq(s, indexOf(s, c) + 1, Len(s))
    IN  IF includes(rest, c) THEN SubSeq(rest, 1, indexOf(rest, c) - 1) ELSE rest

\* base64Only that keeps the data URL prefix
base64OnlyWithPrefix(image) == image

\* base64Only: c.image.includes(",") ? c.image.split(",")[1] : c.image
base64Only(image) ==
    IF includes(image, Comma) THEN splitSecond(image, Comma) ELSE image

IsTextPart(c) == c.type = "text"
IsImagePart(c) == c.type = "image"
IsImageAttachment(att) == att.type = "image"

\* Array.prototype.flatMap over the arrays in seqs
RECURSIVE flatten(_)
flatten(seqs) == IF seqs = <<>> THEN <<>> ELSE seqs[1] \o flatten(Tail(seqs))

\* textContent of convertToOllamaMessages
textContent(msg) ==
    IF msg.content.tag = "string" THEN msg.content.text
    ELSE LET kept == SelectSeq(msg.content.parts, IsTextPart)
         IN  join([i \in DOMAIN kept |-> kept[i].text], <<>>)

\* imageContent of convertToOllamaMessages
imageContent(msg) ==
    LET atts == SelectSeq(msg.attachments, IsImageAttachment)
    IN  flatten([a \in DOMAIN atts |->
            LET kept == SelectSeq(atts[a].content, IsImagePart)
            IN  [i \in DOMAIN kept |-> base64Only(kept[i].text)]])

\* the OllamaMsg of one message: images is set only when there is an image
ollamaMsg(msg) ==
    LET role == IF msg.role = "user" THEN "user" ELSE "assistant"
    IN  IF imageContent(msg) # <<>>
        THEN [role |-> role, content |-> textContent(msg), images |-> imageContent(msg)]
        ELSE [role |-> role, content |-> textContent(msg)]

\* convertToOllamaMessages(messages)
convertToOllamaMessages(messages) ==
    [i \in DOMAIN messages |-> ollamaMsg(messages[i])]

BlankLine == <<10, 10>>                                \* "\n\n"

\* combinedSystemPrompt of the project runtime
combinedSystemPrompt(systemPrompt, projectInstruction) ==
    IF projectInstruction # <<>>
    THEN systemPrompt \o BlankLine \o projectInstruction
    ELSE systemPrompt

systemMessage(content) == [role |-> "system", content |-> content]

\* ollamaMessages = [systemMessage, ...convertToOllamaMessages(messagesToSend)]
ollamaMessages(content, messagesToSend) ==
    <<systemMessage(content)>> \o convertToOllamaMessages(messagesToSend)

\* the chat runtime builds its request of messagesToSend
ChatRequest(messagesToSend, systemPrompt) ==
    /\ request' = [kind |-> "chat", messages |-> messagesToSend,
                   systemPrompt |-> systemPrompt, projectInstruction |-> <<>>,
                   ollamaMessages |-> ollamaMessages(systemPrompt, messagesToSend)]
    /\ UNCHANGED chatVars
    /\ UNCHANGED storageVars
    /\ UNCHANGED projectVars
    /\ UNCHANGED hookVars

\* the project runtime builds its request of messagesToSend
ProjectRequest(messagesToSend, systemPrompt, projectInstruction) ==
    /\ request' = [kind |-> "project", messages |-> messagesToSend,
                   systemPrompt |-> systemPrompt,
                   projectInstruction |-> projectInstruction,
                   ollamaMessages |->
                       ollamaMessages(
                           combinedSystemPrompt(systemPrompt, projectInstruction),
                           messagesToSend)]
    /\ UNCHANGED chatVars
    /\ UNCHANGED storageVars
    /\ UNCHANGED projectVars
    /\ UNCHANGED hookVars

DataUrl == <<100, 59, 98, 44, 65, 65>>                 \* "d;b,AA"
Helpful == <<66, 101>>                                 \* "Be"
Brief == <<110, 111>>                                  \* "no"

\* messages of the kinds a thread holds: several text parts around an image
\* part; image attachments (a data URL, raw data, a text part among them) next
\* to a document; a string content; a document alone; no content part
SampleMessages ==
    {Msg(301, "user",
         Parts(<<TextPart(Hello), ImagePart(Base64), TextPart(Reply)>>), <<>>, NoStatus),
     Msg(302, "user", Parts(<<TextPart(Hello)>>),
         <<ImageAttachment(DataUrl),
           [type |-> "document", content |-> <<ImagePart(DataUrl)>>],
           [type |-> "image", content |-> <<TextPart(Hello), ImagePart(Base64)>>]>>,
         NoStatus),
     Msg(303, "assistant", Str(Reply), <<>>, Complete),
     Msg(304, "user", Str(<<>>),
         <<[type |-> "document", content |-> <<ImagePart(DataUrl)>>]>>, NoStatus),
     Msg(305, "assistant", Parts(<<>>), <<>>, Running)}

MessagesToSend == UNION {[1..n -> SampleMessages] : n \in 0..MaxMessages}

\* the base prompt of the settings store and the instruction of a project;
\* both may be empty
SystemPrompts == {<<>>, Helpful}
ProjectInstructions == {<<>>, Brief}

InitRequest ==
    /\ legacyStore = NoDoc
    /\ now = 1
    /\ call = NoCall
    /\ saves = 0
    /\ chatStorage = NoDoc
    /\ loaded = FALSE
    /\ threads = <<>>
    /\ currentThreadId = MainId
    /\ isRunning = FALSE
    /\ nextId = 0
    /\ migrations = <<>>
    /\ last = NoOp
    /\ streams = <<>>
    /\ request = NoCall
    /\ projects = <<>>
    /\ projectThreadId = Undefined
    /\ titled = NoCall
    /\ hook = NoHook
    /\ selectedModel = NoModel
    /\ threadModel = <<>>
    /\ provider = Unmounted

NextRequest ==
    \/ \E ms \in MessagesToSend : \E p \in SystemPrompts : ChatRequest(ms, p)
    \/ \E ms \in MessagesToSend : \E p \in SystemPrompts :
          \E i \in ProjectInstructions : ProjectRequest(ms, p, i)

SpecRequest == InitRequest /\ [][NextRequest]_vars

(***************************************************************************)
(* Claims about the chat request (SpecRequest)                             *)
(***************************************************************************)
Requested == request.kind \in {"chat", "project"}

\* the entries of the request after the first
Converted == Tail(request.ollamaMessages)

\* the texts of the text parts of parts, one after the other
RECURSIVE TextOf(_)
TextOf(parts) ==
    IF parts = <<>> THEN <<>>
    ELSE (IF parts[1].type = "text" THEN parts[1].text ELSE <<>>) \o TextOf(Tail(parts))

\* image with everything up to and including its first comma removed
AfterFirstComma(image) ==
    LET commas == {i \in DOMAIN image : image[i] = Comma}
    IN  IF commas = {} THEN image
        ELSE LET first == CHOOSE i \in commas : \A j \in commas : i <= j
             IN  [k \in 1..(Len(image) - first) |-> image[first + k]]

\* the image parts of the attachments of kind image, in order, stripped
RECURSIVE PartImages(_)
PartImages(parts) ==
    IF parts = <<>> THEN <<>>
    ELSE (IF parts[1].type = "image" THEN <<AfterFirstComma(parts[1].text)>> ELSE <<>>)
         \o PartImages(Tail(parts))

RECURSIVE ImagesOf(_)
ImagesOf(atts) ==
    IF atts = <<>> THEN <<>>
    ELSE (IF atts[1].type = "image" THEN PartImages(atts[1].content) ELSE <<>>)
         \o ImagesOf(Tail(atts))

\* C12: the n messages of a request are converted to n entries in the same
\* order; an entry's content is the string content, or the text parts
\* concatenated in order without separator; its images are the image parts of
\* the image attachments, in order, without their data URL prefix; and it has
\* no images field when there is no such image.
C12_ConvertsTextAndImages ==
    Requested =>
        /\ Len(Converted) = Len(request.messages)
        /\ \A i \in DOMAIN request.messages :
              LET msg == request.messages[i]
                  entry == Converted[i]
              IN  /\ entry.content = IF msg.content.tag = "string" THEN msg.content.text
                                     ELSE TextOf(msg.content.parts)
                  /\ ("images" \in DOMAIN entry) <=> (ImagesOf(msg.attachments) # <<>>)
                  /\ "images" \in DOMAIN entry =>
                        entry.images = ImagesOf(msg.attachments)

\* a request of two messages: three parts giving "HiOK", then a message whose
\* attachments give two images, the first stripped of its prefix
C12_Witness ==
    /\ Requested
    /\ Len(Converted) = 2
    /\ Converted[1].content = Hello \o Reply
    /\ "images" \notin DOMAIN Converted[1]
    /\ "images" \in DOMAIN Converted[2]
    /\ Converted[2].images = <<Base64, Base64>>

\* C13: a request starts with its only system entry; in a project chat the
\* content of that entry is the base prompt and the instruction joined by a
\* blank line when both are non-empty, and the non-empty one alone when only
\* one of them is.
C13_OneSystemEntryFirst ==
    Requested =>
        /\ request.ollamaMessages[1].role = "system"
        /\ \A i \in DOMAIN Converted : Converted[i].role # "system"
        /\ request.kind = "project" =>
              LET base == request.systemPrompt
                  instruction == request.projectInstruction
                  content == request.ollamaMessages[1].content
              IN  /\ (base # <<>> /\ instruction # <<>>) =>
                        content = base \o BlankLine \o instruction
                  /\ (base # <<>> /\ instruction = <<>>) => content = base
                  /\ (base = <<>> /\ instruction # <<>>) => content = instruction

\* what the request does guarantee: one system entry, first; the base prompt
\* alone without instruction; otherwise the base prompt (empty or not), a
\* blank line and the instruction
C13_SystemEntryAsBuilt ==
    Requested =>
        /\ request.ollamaMessages[1].role = "system"
        /\ \A i \in DOMAIN Converted : Converted[i].role # "system"
        /\ request.ollamaMessages[1].content =
              IF request.projectInstruction = <<>> THEN request.systemPrompt
              ELSE request.systemPrompt \o BlankLine \o request.projectInstruction

(***************************************************************************)
(* generateThreadTitle of the two stores, applied to message sequences     *)
(* (SpecTitle)                                                             *)
(***************************************************************************)
\* "New Conversation"
NewConversation ==
    <<78, 101, 119, 32, 67, 111, 110, 118, 101, 114, 115, 97, 116, 105, 111, 110>>

\* generateThreadTitle(messages) of the project store
generateProjectThreadTitle(messages) ==
    LET users == SelectSeq(messages, IsUser)
    IN  IF users = <<>> THEN NewConversation
        ELSE LET text == titleText(users[1].content)
                 truncated == substring(text, titleLimit)
             IN  IF Len(truncated) < Len(text) THEN truncated \o Ellipsis
                 ELSE IF truncated = <<>> THEN NewConversation
                 ELSE truncated

\* generateThreadTitle(messages) is called in the chat store
TitleChat(messages) ==
    /\ titled' = [kind |-> "chat", messages |-> messages,
                  title |-> generateThreadTitle(messages)]
    /\ UNCHANGED <<projects, projectThreadId, request>>
    /\ UNCHANGED chatVars
    /\ UNCHANGED storageVars
    /\ UNCHANGED hookVars

\* generateThreadTitle(messages) is called in the project store
TitleProject(messages) ==
    /\ titled' = [kind |-> "project", messages |-> messages,
                  title |-> generateProjectThreadTitle(messages)]
    /\ UNCHANGED <<projects, projectThreadId, request>>
    /\ UNCHANGED chatVars
    /\ UNCHANGED storageVars
    /\ UNCHANGED hookVars

FiftyChars == [i \in 1..titleLimit |-> 98]             \* "bbb...b", 50 long

\* messages whose first user text is short, 50 long, 51 long, empty, made of
\* several parts, or missing
TitleSamples ==
    {Msg(401, "user", Parts(<<TextPart(Hello)>>), <<>>, NoStatus),
     Msg(402, "user", Str(Reply), <<>>, NoStatus),
     Msg(403, "user", Str(FiftyChars), <<>>, NoStatus),
     Msg(404, "user", Parts(<<TextPart(LongQuestion)>>), <<>>, NoStatus),
     Msg(405, "user", Str(LongQuestion \o Hello), <<>>, NoStatus),
     Msg(406, "user", Str(<<>>), <<>>, NoStatus),
     Msg(407, "user", Parts(<<ImagePart(Base64)>>), <<>>, NoStatus),
     Msg(408, "user",
         Parts(<<TextPart(<<>>), TextPart(Hello), ImagePart(Base64), TextPart(Reply)>>),
         <<>>, NoStatus),
     Msg(409, "assistant", Parts(<<TextPart(Reply)>>), <<>>, Complete),
     Msg(410, "assistant", Str(LongQuestion), <<>>, Complete)}

TitleInputs == UNION {[1..n -> TitleSamples] : n \in 0..MaxMessages}

NextTitle ==
    \/ \E ms \in TitleInputs : TitleChat(ms)
    \/ \E ms \in TitleInputs : TitleProject(ms)

SpecTitle == InitRequest /\ [][NextTitle]_vars

(***************************************************************************)
(* Claims about generateThreadTitle (SpecTitle)                            *)
(***************************************************************************)
\* the text of a message content: the string, or its non-empty text parts
\* separated by single spaces
RECURSIVE SpacedText(_)
SpacedText(parts) ==
    IF parts = <<>> THEN <<>>
    ELSE IF parts[1].type # "text" \/ parts[1].text = <<>> THEN SpacedText(Tail(parts))
    ELSE IF SpacedText(Tail(parts)) = <<>> THEN parts[1].text
    ELSE parts[1].text \o <<32>> \o SpacedText(Tail(parts))

MessageText(content) ==
    IF content.tag = "string" THEN content.text ELSE SpacedText(content.parts)

Placeholder == IF titled.kind = "chat" THEN NewChat ELSE NewConversation

\* C14: the title of a message sequence is the text t of its first user
\* message when t is non-empty and at most 50 long, the first 50 characters
\* of t followed by "..." when t is longer, and the store's placeholder when
\* there is no user message or t is empty.
C14_TitleFromFirstUserMessage ==
    titled.kind \in {"chat", "project"} =>
        LET ms == titled.messages
            users == {i \in DOMAIN ms : ms[i].role = "user"}
        IN  IF users = {} THEN titled.title = Placeholder
            ELSE LET first == CHOOSE i \in users : \A j \in users : i <= j
                     t == MessageText(ms[first].content)
                 IN  /\ t = <<>> => titled.title = Placeholder
                     /\ (t # <<>> /\ Len(t) <= 50) => titled.title = t
                     /\ Len(t) > 50 =>
                           titled.title = SubSeq(t, 1, 50) \o <<46, 46, 46>>

\* the title of an answer followed by a question of 51 characters: 50 of
\* them and "..."
C14_Witness ==
    /\ titled.kind = "chat"
    /\ Len(titled.messages) = 2
    /\ titled.messages[1].role = "assistant"
    /\ titled.messages[2].content = Parts(<<TextPart(LongQuestion)>>)
    /\ Len(titled.title) = 53

(***************************************************************************)
(* The chat store receiving messages (SpecMessages): addMessage as the     *)
(* runtime calls it, for the user's message and for the assistant's, on    *)
(* whichever thread is current                                             *)
(***************************************************************************)
\* chatStore.addMessage(message), message being new in the current thread
AddMessage(role, text) ==
    LET message == Msg(generateMessageId(Len(getCurrentMessages) + 1), role,
                       Parts(<<TextPart(text)>>), <<>>,
                       IF role = "user" THEN NoStatus ELSE Running)
    IN  /\ loaded
        /\ Len(getCurrentMessages) < MaxMessages
        /\ threads' = addMessage(threads, currentThreadId, message)
        /\ Persisted(currentThreadId, threads')
        /\ UNCHANGED <<currentThreadId, isRunning, loaded, nextId, migrations,
                       last, streams>>
        /\ UNCHANGED storageVars
        /\ UNCHANGED request
        /\ UNCHANGED projectVars
        /\ UNCHANGED hookVars

\* a loaded store holding two empty threads
InitMessages ==
    /\ legacyStore = NoDoc
    /\ now = 1
    /\ call = NoCall
    /\ saves = 0
    /\ threads = <<createInitialThread(MainId), createInitialThread(11)>>
    /\ currentThreadId = MainId
    /\ chatStorage = ChatDoc(MainId, threads)
    /\ loaded = TRUE
    /\ isRunning = FALSE
    /\ nextId = 0
    /\ migrations = <<>>
    /\ last = NoOp
    /\ streams = <<>>
    /\ request = NoCall
    /\ projects = <<>>
    /\ projectThreadId = Undefined
    /\ titled = NoCall
    /\ hook = NoHook
    /\ selectedModel = NoModel
    /\ threadModel = <<>>
    /\ provider = Unmounted

NextMessages ==
    \/ \E text \in {Hello, Edited, LongQuestion} : AddMessage("user", text)
    \/ \E text \in {<<>>, Reply} : AddMessage("assistant", text)
    \/ \E id \in Ids(threads) : setCurrentThreadId(id)

SpecMessages == InitMessages /\ [][NextMessages]_vars

(***************************************************************************)
(* Claims about addMessage (SpecMessages)                                  *)
(***************************************************************************)
\* the step appended a user message to the current thread
AppendedUser ==
    LET old == getCurrentMessages
        new == getCurrentMessages'
    IN  /\ currentThreadId' = currentThreadId
        /\ Len(new) = Len(old) + 1
        /\ SubSeq(new, 1, Len(old)) = old
        /\ new[Len(new)].role = "user"

NoUserMessage(messages) == \A i \in DOMAIN messages : messages[i].role # "user"

\* C15: when addMessage appends a user message to a thread that held no user
\* message, the thread's title becomes the label derived from that message,
\* also when the thread already holds messages of other roles.
C15_FirstUserMessageSetsTitle ==
    [][(AppendedUser /\ NoUserMessage(getCurrentMessages)) =>
          LET new == getCurrentMessages'
          IN  TitleDerived(Get(threads', currentThreadId).title, <<new[Len(new)]>>)
      ]_vars

\* what addMessage does guarantee: the title is derived from a user message
\* that is the first message of the thread, and is left alone otherwise
C15_FirstMessageSetsTitle ==
    [][AppendedUser =>
          LET new == getCurrentMessages'
          IN  IF Len(new) = 1
              THEN TitleDerived(Get(threads', currentThreadId).title, new)
              ELSE Get(threads', currentThreadId).title =
                       Get(threads, currentThreadId).title
      ]_vars

(***************************************************************************)
(* Claims about archiving, retention and renaming in the chat store        *)
(***************************************************************************)
\* the step is archiveThread(id) on an existing thread
Archives == last'.op = "archiveThread" /\ HasId(threads, last'.id)

OtherRegular(id) ==
    {t.id : t \in {u \in Range(threads) : u.id # id /\ u.status = "regular"}}

\* C16: archiveThread(id) on an existing thread leaves it in the map with
\* status archived and its messages; when id was current, the current thread
\* afterwards exists and is regular (another regular thread when there was
\* one, else a new empty one); when id was not current, currentThreadId is
\* unchanged.
C16_ArchiveKeepsAndReselects ==
    [][Archives =>
          LET id == last'.id
          IN  /\ HasId(threads', id)
              /\ Get(threads', id).status = "archived"
              /\ Get(threads', id).messages = Get(threads, id).messages
              /\ Ids(threads) \subseteq Ids(threads')
              /\ id # currentThreadId =>
                    /\ currentThreadId' = currentThreadId
                    /\ Ids(threads') = Ids(threads)
              /\ id = currentThreadId =>
                    /\ HasId(threads', currentThreadId')
                    /\ Get(threads', currentThreadId').status = "regular"
                    /\ OtherRegular(id) # {} =>
                          /\ currentThreadId' \in OtherRegular(id)
                          /\ Ids(threads') = Ids(threads)
                    /\ OtherRegular(id) = {} =>
                          /\ ~HasId(threads, currentThreadId')
                          /\ Get(threads', currentThreadId').messages = <<>>
                          /\ Ids(threads') = Ids(threads) \cup {currentThreadId'}
      ]_vars

\* the current thread, one with messages, was just archived while no other
\* regular thread was left: it is still there, and a new empty thread is
\* current
C16_Witness ==
    /\ last.op = "archiveThread"
    /\ last.onCurrent
    /\ HasId(threads, last.id)
    /\ Get(threads, last.id).status = "archived"
    /\ Get(threads, last.id).messages # <<>>
    /\ currentThreadId # last.id
    /\ HasId(threads, currentThreadId)
    /\ Get(threads, currentThreadId).messages = <<>>
    /\ \A t \in Range(threads) : t.id # currentThreadId => t.status = "archived"

(***************************************************************************)
(* The chat store holding many threads (SpecThreads)                       *)
(***************************************************************************)
\* a store hydrated with n empty threads, "main" first
ManyThreads(n) == [i \in 1..n |-> createInitialThread(i - 1)]

InitThreads ==
    /\ legacyStore = NoDoc
    /\ now = 1
    /\ call = NoCall
    /\ saves = 0
    /\ \E n \in 1..maxThreads : threads = ManyThreads(n)
    /\ currentThreadId = MainId
    /\ chatStorage = ChatDoc(MainId, threads)
    /\ loaded = TRUE
    /\ isRunning = FALSE
    /\ nextId = 0
    /\ migrations = <<>>
    /\ last = NoOp
    /\ streams = <<>>
    /\ request = NoCall
    /\ projects = <<>>
    /\ projectThreadId = Undefined
    /\ titled = NoCall
    /\ hook = NoHook
    /\ selectedModel = NoModel
    /\ threadModel = <<>>
    /\ provider = Unmounted

NextThreads ==
    \/ createNewThread
    \/ \E id \in Ids(threads) : setCurrentThreadId(id)

SpecThreads == InitThreads /\ [][NextThreads]_vars

\* C17: the chat store, and with it its persisted document, never holds
\* more threads than the retention maximum of 10.
C17_StoreWithinRetention ==
    /\ Len(threads) <= maxThreads
    /\ chatStorage.kind = "doc" => Len(chatStorage.threads) <= maxThreads

(***************************************************************************)
(* part_001 (the project store) and ollama-project-runtime.tsx (its thread *)
(* list adapter).  A project is modelled by its id and its projectThreads, *)
(* a project thread by its id, messages and title.  The provider is the    *)
(* one of the project detail view: mounted for one project, without a      *)
(* threadId prop, so that its currentThreadId starts undefined.            *)
(***************************************************************************)
\* the n-th identifier handed out by generateProjectId
generateProjectId(n) == 5000 + n

ProjectThread(id, messages, title) ==
    [id |-> id, messages |-> messages, title |-> title]

Project(id, projectThreads) == [id |-> id, projectThreads |-> projectThreads]

\* state.projects[projectId]?.projectThreads || {}
projectThreadsOf(ps, projectId) ==
    IF HasId(ps, projectId) THEN Get(ps, projectId).projectThreads ELSE <<>>

\* ps with the threads of project projectId, when it exists, replaced by ts
WithProjectThreads(ps, projectId, ts) ==
    [i \in DOMAIN ps |->
        IF ps[i].id = projectId THEN [ps[i] EXCEPT !.projectThreads = ts] ELSE ps[i]]

\* getProjectThread(projectId, threadId) finds a thread
hasProjectThread(ps, projectId, threadId) ==
    HasId(projectThreadsOf(ps, projectId), threadId)

\* the projects after createProjectThread(projectId, model) drew newThreadId
createdThreads(ps, projectId, newThreadId) ==
    WithProjectThreads(ps, projectId,
        Put(projectThreadsOf(ps, projectId),
            ProjectThread(newThreadId, <<>>, NewConversation)))

\* the projects after deleteProjectThread(projectId, threadId)
deletedThread(ps, projectId, threadId) ==
    WithProjectThreads(ps, projectId, Remove(projectThreadsOf(ps, projectId), threadId))

\* the projects after addProjectMessage(projectId, threadId, message)
addedProjectMessage(ps, projectId, threadId, message) ==
    LET ts == projectThreadsOf(ps, projectId)
    IN  WithProjectThreads(ps, projectId,
            [i \in DOMAIN ts |->
                IF ts[i].id = threadId
                THEN LET pushed == Append(ts[i].messages, message)
                     IN  [ts[i] EXCEPT
                            !.messages = pushed,
                            !.title = IF message.role = "user" /\ Len(pushed) = 1
                                      THEN generateProjectThreadTitle(pushed)
                                      ELSE @]
                ELSE ts[i]])

\* the projects after setProjectMessages(projectId, threadId, messages)
setProjectMessages(ps, projectId, threadId, messages) ==
    WithProjectThreads(ps, projectId,
        setMessages(projectThreadsOf(ps, projectId), threadId, messages))

\* a currentThreadId of the provider that is a string
Defined(id) == [kind |-> "id", id |-> id]

\* the projectId prop of the mounted provider
ViewedProject == 1

\* what the last project operation was: its arguments and what it returned
ProjectDid(op, projectId, id, returned) ==
    [op |-> op, projectId |-> projectId, id |-> id, returned |-> returned,
     onCurrent |-> (projectThreadId = Defined(id))]

\* what every project operation leaves alone
ProjectFrame ==
    /\ UNCHANGED titled
    /\ UNCHANGED hookVars
    /\ UNCHANGED <<chatStorage, loaded, threads, currentThreadId, isRunning,
                   migrations, streams>>
    /\ UNCHANGED storageVars
    /\ UNCHANGED request

\* createProjectThread(projectId, model): the store's operation
createProjectThread(projectId) ==
    LET newThreadId == generateProjectId(nextId + 1)
    IN  /\ nextId < MaxIds
        /\ nextId' = nextId + 1
        /\ projects' = IF HasId(projects, projectId)
                       THEN createdThreads(projects, projectId, newThreadId)
                       ELSE projects
        /\ last' = ProjectDid("createProjectThread", projectId, newThreadId,
                              newThreadId)
        /\ UNCHANGED projectThreadId
        /\ ProjectFrame

\* addProjectMessage(projectId, threadId, message): the store's operation
addProjectMessage(projectId, threadId, role, text) ==
    LET stored == IF hasProjectThread(projects, projectId, threadId)
                  THEN Get(projectThreadsOf(projects, projectId), threadId).messages
                  ELSE <<>>
        message == Msg(generateMessageId(Len(stored) + 1), role,
                       Parts(<<TextPart(text)>>), <<>>,
                       IF role = "user" THEN NoStatus ELSE Running)
    IN  /\ Len(stored) < MaxMessages
        /\ projects' = addedProjectMessage(projects, projectId, threadId, message)
        /\ last' = ProjectDid("addProjectMessage", projectId, threadId, message)
        /\ UNCHANGED <<projectThreadId, nextId>>
        /\ ProjectFrame

\* onSwitchToNewThread of the project thread list
onSwitchToNewThread ==
    LET newThreadId == generateProjectId(nextId + 1)
    IN  /\ nextId < MaxIds
        /\ nextId' = nextId + 1
        /\ projects' = IF HasId(projects, ViewedProject)
                       THEN createdThreads(projects, ViewedProject, newThreadId)
                       ELSE projects
        /\ projectThreadId' = Defined(newThreadId)
        /\ last' = ProjectDid("onSwitchToNewThread", ViewedProject, newThreadId,
                              newThreadId)
        /\ ProjectFrame

\* onSwitchToThread(threadId) of the project thread list
onSwitchToThread(threadId) ==
    /\ projectThreadId' = Defined(threadId)
    /\ last' = ProjectDid("onSwitchToThread", ViewedProject, threadId, threadId)
    /\ UNCHANGED <<projects, nextId>>
    /\ ProjectFrame

\* onRename(threadId, newTitle) of the project thread list
onRename(threadId, newTitle) ==
    /\ projects' =
         IF hasProjectThread(projects, ViewedProject, threadId)
         THEN setProjectMessages(projects, ViewedProject, threadId,
                  Get(projectThreadsOf(projects, ViewedProject), threadId).messages)
         ELSE projects
    /\ last' = ProjectDid("onRename", ViewedProject, threadId, newTitle)
    /\ UNCHANGED <<projectThreadId, nextId>>
    /\ ProjectFrame

\* the thread the list switches to after threadId went away: the callback
\* reads the threads from the store state of the last render, which the
\* store's set() replaced and did not change
switchedAfterRemoval(threadId) ==
    LET remainingThreads == projectThreadsOf(projects, ViewedProject)
    IN  IF projectThreadId = Defined(threadId)
        THEN IF Len(remainingThreads) > 0
             THEN Defined(remainingThreads[1].id)
             ELSE Undefined
        ELSE projectThreadId

\* onArchive(threadId) of the project thread list
onArchive(threadId) ==
    /\ projects' = deletedThread(projects, ViewedProject, threadId)
    /\ projectThreadId' = switchedAfterRemoval(threadId)
    /\ last' = ProjectDid("onArchive", ViewedProject, threadId, threadId)
    /\ UNCHANGED nextId
    /\ ProjectFrame

\* onDelete(threadId) of the project thread list
onDelete(threadId) ==
    /\ projects' = deletedThread(projects, ViewedProject, threadId)
    /\ projectThreadId' = switchedAfterRemoval(threadId)
    /\ last' = ProjectDid("onDelete", ViewedProject, threadId, threadId)
    /\ UNCHANGED nextId
    /\ ProjectFrame

(***************************************************************************)
(* The project store under the project detail view: one project, its       *)
(* thread list, and the store's operations called with any project id.     *)
(***************************************************************************)
\* an id no project of the store has
MissingProject == 2

ProjectIds == {ViewedProject, MissingProject}

\* a thread of the viewed project that already exists when the view opens
FirstThread == 21

\* the threads project 1 holds when the view opens
OpenedThreads == {<<>>, <<ProjectThread(FirstThread, <<>>, NewConversation)>>}

\* the ids of the viewed project's threads
ListedIds == Ids(projectThreadsOf(projects, ViewedProject))

\* the thread ids a caller of the store can hold
HandedOutIds == ListedIds \cup {generateProjectId(n) : n \in 1..nextId}

InitProject ==
    /\ legacyStore = NoDoc
    /\ now = 1
    /\ call = NoCall
    /\ saves = 0
    /\ threads = <<LoadedThreads[1]>>
    /\ currentThreadId = MainId
    /\ chatStorage = ChatDoc(MainId, threads)
    /\ loaded = TRUE
    /\ isRunning = FALSE
    /\ nextId = 0
    /\ migrations = <<>>
    /\ last = NoOp
    /\ streams = <<>>
    /\ request = NoCall
    /\ \E ts \in OpenedThreads : projects = <<Project(ViewedProject, ts)>>
    /\ projectThreadId = Undefined
    /\ titled = NoCall
    /\ hook = NoHook
    /\ selectedModel = NoModel
    /\ threadModel = <<>>
    /\ provider = Unmounted

NextProject ==
    \/ \E projectId \in ProjectIds : createProjectThread(projectId)
    \/ \E projectId \in ProjectIds, threadId \in HandedOutIds :
          addProjectMessage(projectId, threadId, "user", Hello)
    \/ onSwitchToNewThread
    \/ \E threadId \in ListedIds : onSwitchToThread(threadId)
    \/ \E threadId \in ListedIds : onRename(threadId, Edited)
    \/ \E id \in Ids(threads) \cup {UnknownId} : renameThread(id, Edited)
    \/ \E threadId \in ListedIds : onArchive(threadId)
    \/ \E threadId \in ListedIds : onDelete(threadId)

SpecProject == InitProject /\ [][NextProject]_vars

\* C18: after onDelete or onArchive of the current thread the provider's
\* currentThreadId is undefined or names a thread that still exists in the
\* project; it never names the thread just deleted.
C18_RemovalNeverLeavesDangling ==
    [][(last'.op \in {"onDelete", "onArchive"} /\ last'.onCurrent)
         => /\ projectThreadId' # Defined(last'.id)
            /\ \/ projectThreadId' = Undefined
               \/ \E id \in Ids(projectThreadsOf(projects', ViewedProject)) :
                     projectThreadId' = Defined(id)]_vars

\* what the list does on removal: it switches to the thread that was first
\* in the project before the removal, the removed thread included
C18_SwitchesToFirstBeforeRemoval ==
    [][(last'.op \in {"onDelete", "onArchive"} /\ last'.onCurrent)
         => /\ ~hasProjectThread(projects', ViewedProject, last'.id)
            /\ projectThreadId' =
                 Defined(projectThreadsOf(projects, ViewedProject)[1].id)]_vars

\* C19: for every projectId, the id createProjectThread returns names an
\* existing thread of that project with no messages, and a message added
\* next under that id is stored.
C19_CreatesForEveryProject ==
    [][/\ last'.op = "createProjectThread"
          => /\ hasProjectThread(projects', last'.projectId, last'.returned)
             /\ Get(projectThreadsOf(projects', last'.projectId),
                    last'.returned).messages = <<>>
       /\ (/\ last.op = "createProjectThread"
           /\ last'.op = "addProjectMessage"
           /\ last'.projectId = last.projectId
           /\ last'.id = last.returned)
          => /\ hasProjectThread(projects', last'.projectId, last'.id)
             /\ Get(projectThreadsOf(projects', last'.projectId),
                    last'.id).messages = <<last'.returned>>]_vars

\* what holds: the thread is created, empty and titled "New Conversation",
\* exactly when the project exists; otherwise the store is unchanged
C19_CreatesForExistingProject ==
    [][last'.op = "createProjectThread"
         => IF HasId(projects, last'.projectId)
            THEN /\ ~hasProjectThread(projects, last'.projectId, last'.returned)
                 /\ Get(projectThreadsOf(projects', last'.projectId), last'.returned)
                      = ProjectThread(last'.returned, <<>>, NewConversation)
            ELSE projects' = projects]_vars

\* the thread id of a project, or <<>> when the project has no such thread
threadOf(ps, projectId, threadId) ==
    IF hasProjectThread(ps, projectId, threadId)
    THEN <<Get(projectThreadsOf(ps, projectId), threadId)>>
    ELSE <<>>

\* C20: renaming sets the label: after the project thread list's
\* onRename(threadId, t), as after the chat store's renameThread(id, t),
\* the named existing thread has title t and the messages it had.
C20_RenameSetsTitle ==
    [][/\ (last'.op = "renameThread" /\ HasId(threads, last'.id))
          => /\ Get(threads', last'.id).title = last'.title
             /\ Get(threads', last'.id).messages = Get(threads, last'.id).messages
       /\ (last'.op = "onRename"
           /\ hasProjectThread(projects, ViewedProject, last'.id))
          => LET before == threadOf(projects, ViewedProject, last'.id)[1]
                 after == threadOf(projects', ViewedProject, last'.id)[1]
             IN  /\ after.title = last'.returned
                 /\ after.messages = before.messages]_vars

\* what holds: the chat store's renameThread sets the title of the named
\* thread and changes nothing else; the project list's onRename leaves the
\* project store as it was
C20_OnlyChatStoreRenames ==
    [][/\ last'.op = "renameThread"
          => /\ threads' = SetTitle(threads, last'.id, last'.title)
             /\ HasId(threads, last'.id) =>
                   /\ Get(threads', last'.id).title = last'.title
                   /\ Get(threads', last'.id).messages = Get(threads, last'.id).messages
             /\ currentThreadId' = currentThreadId
       /\ last'.op = "onRename"
          => /\ projects' = projects
             /\ projectThreadId' = projectThreadId]_vars

(***************************************************************************)
(* ollama-runtime.ts: the ChatModelAdapter of the local runtime.  run is   *)
(* an async generator: it awaits the chat call, then takes the fragments   *)
(* of the response one at a time and is suspended at each yield until its  *)
(* consumer asks for the next result.  The abort signal belongs to the     *)
(* consumer and may be set at any moment between two steps.                *)
(***************************************************************************)
\* a result the generator yields
Yielded(text, status) == [text |-> text, status |-> status]

\* the run of the generator that has just been called
NewRun(fragments) ==
    [pc |-> "awaiting", accumulatedText |-> <<>>, frags |-> fragments,
     emitted |-> <<>>, aborted |-> FALSE, exit |-> "none", left |-> 0]

\* the run that is under way: the last one called
LastRun(ss) == ss[Len(ss)]

\* the signal that is never seen
abortedNever(s) == FALSE

\* abortSignal?.aborted
aborted(s) == s.aborted

\* streams with the run under way replaced by s
WithRun(s) == [streams EXCEPT ![Len(streams)] = s]

\* what the adapter never touches
RunFrame ==
    /\ UNCHANGED <<chatStorage, loaded, threads, currentThreadId, isRunning,
                   nextId, migrations, last>>
    /\ UNCHANGED storageVars
    /\ UNCHANGED projectVars
    /\ UNCHANGED hookVars

\* run({messages, abortSignal}) up to `await ollamaClient.chat(...)`
run(messages, fragments) ==
    /\ Len(streams) < MaxStreams
    /\ streams # <<>> => LastRun(streams).pc = "done"
    /\ request' = [kind |-> "local", messages |-> messages,
                   systemPrompt |-> Helpful, projectInstruction |-> <<>>,
                   ollamaMessages |-> ollamaMessages(Helpful, messages)]
    /\ streams' = Append(streams, NewRun(fragments))
    /\ RunFrame

\* the consumer sets the abort signal
Abort ==
    /\ streams # <<>>
    /\ LastRun(streams).pc # "done"
    /\ ~LastRun(streams).aborted
    /\ streams' = WithRun([LastRun(streams) EXCEPT
                              !.aborted = TRUE,
                              !.left = Len(LastRun(streams).frags)])
    /\ UNCHANGED request
    /\ RunFrame

\* ollamaClient.chat resolves with the response stream
ChatResolves ==
    /\ streams # <<>>
    /\ LastRun(streams).pc = "awaiting"
    /\ streams' = WithRun([LastRun(streams) EXCEPT !.pc = "streaming"])
    /\ UNCHANGED request
    /\ RunFrame

\* the catch block: yields empty text with status incomplete
Caught(s) ==
    [s EXCEPT !.pc = "done", !.exit = "error",
              !.emitted = Append(@, Yielded(<<>>, Incomplete(Failure)))]

\* ollamaClient.chat rejects
ChatRejects ==
    /\ streams # <<>>
    /\ LastRun(streams).pc = "awaiting"
    /\ streams' = WithRun(Caught(LastRun(streams)))
    /\ UNCHANGED request
    /\ RunFrame

\* the response delivers its next fragment: one turn of the for-await loop
RunChunk ==
    /\ streams # <<>>
    /\ LastRun(streams).pc = "streaming"
    /\ LastRun(streams).frags # <<>>
    /\ LET s == LastRun(streams)
           text == s.accumulatedText \o Head(s.frags)
       IN  streams' = WithRun(
             IF aborted(s)
             THEN [s EXCEPT !.pc = "done", !.exit = "break", !.frags = Tail(@)]
             ELSE [s EXCEPT !.pc = "yielded", !.frags = Tail(@),
                            !.accumulatedText = text,
                            !.emitted = Append(@, Yielded(text, NoStatus))])
    /\ UNCHANGED request
    /\ RunFrame

\* the consumer asks for the next result: the generator resumes after yield
Resume ==
    /\ streams # <<>>
    /\ LastRun(streams).pc = "yielded"
    /\ streams' = WithRun([LastRun(streams) EXCEPT !.pc = "streaming"])
    /\ UNCHANGED request
    /\ RunFrame

\* the consumer closes the generator it aborted instead of resuming it
Return ==
    /\ streams # <<>>
    /\ LastRun(streams).pc = "yielded"
    /\ LastRun(streams).aborted
    /\ streams' = WithRun([LastRun(streams) EXCEPT !.pc = "done", !.exit = "return"])
    /\ UNCHANGED request
    /\ RunFrame

\* the response ends: the loop is left normally
RunEnds ==
    /\ streams # <<>>
    /\ LastRun(streams).pc = "streaming"
    /\ LastRun(streams).frags = <<>>
    /\ streams' = WithRun([LastRun(streams) EXCEPT !.pc = "done", !.exit = "end"])
    /\ UNCHANGED request
    /\ RunFrame

\* the response throws while the loop waits for a fragment
RunThrows ==
    /\ streams # <<>>
    /\ LastRun(streams).pc = "streaming"
    /\ streams' = WithRun(Caught(LastRun(streams)))
    /\ UNCHANGED request
    /\ RunFrame

\* a response of three fragments
LongResponse == Response \o <<<<99>>>>

\* the messages the local runtime passes: their content is an array of parts
RunInputs ==
    {<<Msg(301, "user", Parts(<<TextPart(Hello)>>), <<>>, NoStatus)>>,
     <<Msg(301, "user", Parts(<<TextPart(Hello)>>), <<ImageAttachment(DataUrl)>>,
           NoStatus),
       Msg(302, "assistant", Parts(<<TextPart(Reply)>>), <<>>, Complete),
       Msg(303, "user", Parts(<<TextPart(Edited)>>), <<>>, NoStatus)>>,
     <<Msg(301, "user", Parts(<<TextPart(LongQuestion)>>), <<>>, NoStatus)>>}

NextRun ==
    \/ \E messages \in RunInputs, fragments \in {Response, LongResponse} :
          run(messages, fragments)
    \/ Abort
    \/ ChatResolves
    \/ ChatRejects
    \/ RunChunk
    \/ Resume
    \/ Return
    \/ RunEnds
    \/ RunThrows

SpecRun == InitRequest /\ [][NextRun]_vars

\* C21: once the abort signal is set the run loop exits at the next fragment
\* boundary: that fragment and the later ones are not emitted, and the
\* cancellation emits no incomplete status (a status is emitted only when the
\* chat call or the response itself fails).
C21_AbortStopsAtNextFragment ==
    [][\A i \in DOMAIN streams :
         (i \in DOMAIN streams' /\ streams[i].aborted)
           => LET s == streams[i]
                  t == streams'[i]
              IN  /\ t.frags # s.frags => (t.pc = "done" /\ t.exit = "break")
                  /\ t.emitted # s.emitted
                       => /\ t.exit = "error"
                          /\ s.frags = t.frags
                          /\ t.emitted =
                               Append(s.emitted, Yielded(<<>>, Incomplete(Failure)))
                  /\ t.accumulatedText = s.accumulatedText]_vars

\* a run aborted after its first fragment was emitted left the loop at the
\* next fragment, with fragments still to come
C21_Witness ==
    \E i \in DOMAIN streams :
        /\ streams[i].aborted
        /\ streams[i].exit = "break"
        /\ Len(streams[i].emitted) = 1
        /\ streams[i].emitted[1].status = NoStatus
        /\ streams[i].frags # <<>>
        /\ Len(streams[i].frags) = streams[i].left - 1

(***************************************************************************)
(* part_004 (use-persist-threads): the hook that saves the thread of the   *)
(* local runtime through a debounced saveCurrentThread.  The clock `now`   *)
(* counts half windows (500 ms); a timer that is due runs before the clock *)
(* moves on.  hook.messages is api.thread().getState().messages.  The      *)
(* writes of saveThreads succeed here; its failures are those of the       *)
(* persistence layer above.                                                *)
(***************************************************************************)
\* debounce(saveCurrentThread, 1000): the window, in clock units of 500 ms
delay == 2

\* the clock stops here
MaxTime == 4

\* a model name, "g3"
Gemma == <<103, 51>>

\* the hook after its first render with the selected model m
Mounted(m, messages) ==
    [mounted |-> TRUE, timeoutId |-> FALSE, due |-> 0, hasInitialized |-> FALSE,
     model |-> m, messages |-> messages,
     lastTrigger |-> 0, written |-> 0, by |-> "none"]

\* the data saveCurrentThread passes to saveThreads
currentData(h) == [threadId |-> MainId, messages |-> h.messages, model |-> h.model]

\* saveCurrentThread(): nothing when the thread has no message, else
\* saveThreads({threadId: "main", messages, model}) with write outcome o1;
\* `by` is the caller: the timeout, flush, or the cleanup itself
saveCurrentThread(h, o1, by) ==
    IF Len(h.messages) = 0
    THEN UNCHANGED <<legacyStore, call, saves>>
    ELSE LET data == currentData(h)
             attempts == saveAttempts(legacyStore, data, now, o1, "ok")
         IN  /\ saves' = saves + 1
             /\ legacyStore' = storeAfter(legacyStore, attempts)
             /\ call' = [kind |-> "saveThreads", data |-> data, at |-> now,
                         outcome |-> o1, by |-> by]

\* what the hook never touches
HookFrame ==
    /\ UNCHANGED chatVars
    /\ UNCHANGED request
    /\ UNCHANGED projectVars
    /\ UNCHANGED <<threadModel, provider>>

\* the trigger at `now` continues the burst of the trigger before it
InBurst(h) == h.lastTrigger > 0 /\ now - h.lastTrigger < delay

\* debouncedSave() that leaves a pending timeout as it is
debouncedSaveKeepingTimeout(h) ==
    [h EXCEPT !.timeoutId = TRUE, !.due = IF h.timeoutId THEN @ ELSE now + delay,
              !.lastTrigger = now,
              !.written = IF InBurst(h) THEN @ ELSE 0,
              !.by = "trigger"]

\* debouncedSave(): clears the pending timeout and sets a new one
debouncedSave(h) ==
    [h EXCEPT !.timeoutId = TRUE, !.due = now + delay, !.lastTrigger = now,
              !.written = IF InBurst(h) THEN @ ELSE 0,
              !.by = "trigger"]

\* debouncedFn.flush(): clears the pending timeout; fn is not called
flush(h) == [h EXCEPT !.timeoutId = FALSE]

\* event composer.send: the user's message is in the thread
composerSend(text) ==
    /\ hook.mounted
    /\ Len(hook.messages) < MaxMessages
    /\ hook' = debouncedSave(
         [hook EXCEPT !.messages =
            Append(@, Msg(generateMessageId(Len(@) + 1), "user",
                          Parts(<<TextPart(text)>>), <<>>, NoStatus))])
    /\ UNCHANGED <<legacyStore, call, saves, now, selectedModel>>
    /\ HookFrame

\* event thread.run-end: the assistant's message is in the thread
threadRunEnd(text) ==
    /\ hook.mounted
    /\ Len(hook.messages) < MaxMessages
    /\ hook' = debouncedSave(
         [hook EXCEPT !.messages =
            Append(@, Msg(generateMessageId(Len(@) + 1), "assistant",
                          Parts(<<TextPart(text)>>), <<>>, Complete))])
    /\ UNCHANGED <<legacyStore, call, saves, now, selectedModel>>
    /\ HookFrame

\* event thread.initialize: the first one is skipped, a later one (a switch
\* to a thread holding `messages`) saves
threadInitialize(messages) ==
    /\ hook.mounted
    /\ hook' = IF ~hook.hasInitialized
               THEN [hook EXCEPT !.hasInitialized = TRUE]
               ELSE debouncedSave([hook EXCEPT !.messages = messages])
    /\ UNCHANGED <<legacyStore, call, saves, now, selectedModel>>
    /\ HookFrame

\* the timeout set by debouncedSave runs: fn(...args); timeoutId = null
TimerFires(o1) ==
    /\ hook.mounted
    /\ hook.timeoutId
    /\ now >= hook.due
    /\ saves < MaxSaves
    /\ saveCurrentThread(hook, o1, "timer")
    /\ hook' = [hook EXCEPT !.timeoutId = FALSE, !.by = "timer",
                            !.written = @ + (saves' - saves)]
    /\ UNCHANGED <<now, selectedModel>>
    /\ HookFrame

\* the cleanup of the hook's effect: flush(), then saveCurrentThread()
cleanup(o1) ==
    /\ saveCurrentThread(flush(hook), o1, "cleanup")

\* the model store changes: the hook renders again with a new
\* saveCurrentThread and a new debounced function, and the effect of the
\* previous render is cleaned up
setSelectedModel(m, o1) ==
    /\ hook.mounted
    /\ m # selectedModel
    /\ saves < MaxSaves
    /\ selectedModel' = m
    /\ cleanup(o1)
    /\ hook' = [flush(hook) EXCEPT !.model = m, !.by = "cleanup",
                                   !.written = @ + (saves' - saves)]
    /\ UNCHANGED now
    /\ HookFrame

\* the component unmounts
Teardown(o1) ==
    /\ hook.mounted
    /\ saves < MaxSaves
    /\ cleanup(o1)
    /\ hook' = [flush(hook) EXCEPT !.mounted = FALSE, !.by = "cleanup",
                                   !.written = @ + (saves' - saves)]
    /\ UNCHANGED <<now, selectedModel>>
    /\ HookFrame

\* half a window passes; a timer that is due has run
Tick ==
    /\ now < MaxTime
    /\ ~(hook.mounted /\ hook.timeoutId /\ now >= hook.due)
    /\ now' = now + 1
    /\ UNCHANGED <<legacyStore, call, saves, hook, selectedModel>>
    /\ HookFrame

InitPersist ==
    /\ legacyStore = NoDoc
    /\ now = 1
    /\ call = NoCall
    /\ saves = 0
    /\ chatStorage = NoDoc
    /\ loaded = FALSE
    /\ threads = <<>>
    /\ currentThreadId = MainId
    /\ isRunning = FALSE
    /\ nextId = 0
    /\ migrations = <<>>
    /\ last = NoOp
    /\ streams = <<>>
    /\ request = NoCall
    /\ projects = <<>>
    /\ projectThreadId = Undefined
    /\ titled = NoCall
    /\ selectedModel = Gemma
    /\ hook = Mounted(selectedModel, <<>>)
    /\ threadModel = <<>>
    /\ provider = Unmounted

NextPersist ==
    \/ composerSend(Hello)
    \/ threadRunEnd(Reply)
    \/ \E messages \in {<<>>, TextOnly} : threadInitialize(messages)
    \/ TimerFires("ok")
    \/ \E m \in {NoModel, Gemma} : setSelectedModel(m, "ok")
    \/ Teardown("ok")
    \/ Tick

SpecPersist == InitPersist /\ [][NextPersist]_vars

\* the step is the run of the debounce timeout
TimerStep == hook.mounted /\ hook.timeoutId /\ hook'.by = "timer"

\* the step is a save trigger
TriggerStep == hook'.by = "trigger" /\ hook' # hook

\* the step calls saveThreads with the thread as it is
SavesCurrent ==
    /\ saves' = saves + 1
    /\ call'.kind = "saveThreads"
    /\ call'.data = currentData(hook)
    /\ call'.at = now
    /\ legacyStore'.mainThreadId = MainId
    /\ Get(legacyStore'.threads, MainId).messages = hook.messages

\* C22: a burst of save triggers, each less than the window after the one
\* before, produces exactly one saveThreads write, one window after the last
\* trigger and with the thread state of that moment.
C22_BurstWritesExactlyOnce ==
    [][TimerStep => /\ now = hook.lastTrigger + delay
                    /\ SavesCurrent
                    /\ hook'.written = 1]_vars

\* C22 as the code has it: a trigger writes nothing; the timeout runs one
\* window after the last trigger and then writes exactly once, the thread as
\* it is, when the thread has a message, and nothing when the thread is
\* empty; a change of the selected model or a teardown cancels the timeout
\* and saves at once in its place.
C22_BurstWritesAtMostOnce ==
    [][/\ TriggerStep => (saves' = saves /\ legacyStore' = legacyStore)
       /\ TimerStep
            => /\ now = hook.lastTrigger + delay
               /\ IF Len(hook.messages) > 0
                  THEN SavesCurrent /\ hook'.written = hook.written + 1
                  ELSE saves' = saves /\ legacyStore' = legacyStore
       /\ (hook.timeoutId /\ ~hook'.timeoutId /\ ~TimerStep)
            => /\ hook'.by = "cleanup"
               /\ IF Len(hook.messages) > 0 THEN SavesCurrent ELSE saves' = saves]_vars

\* a burst of two triggers was written once, one window after the second
C22_Witness ==
    /\ hook.by = "timer"
    /\ hook.written = 1
    /\ saves = 1
    /\ call.kind = "saveThreads"
    /\ Len(call.data.messages) = 2
    /\ call.at = hook.lastTrigger + delay
    /\ Get(legacyStore.threads, MainId).createdAt = call.at

\* the step is the teardown of a hook with a save pending on a thread that
\* has messages
TeardownStep ==
    /\ hook.mounted /\ ~hook'.mounted
    /\ hook.timeoutId
    /\ Len(hook.messages) > 0

\* C23: on teardown a pending debounced save is not lost: flush executes the
\* pending save at once, a write of the current thread state has happened
\* when the cleanup returns, and no timeout writes after the teardown.
C23_FlushRunsPendingSave ==
    [][/\ TeardownStep => /\ SavesCurrent
                          /\ call'.by = "flush"
                          /\ ~hook'.timeoutId
       /\ ~hook.mounted => (saves' = saves /\ legacyStore' = legacyStore)]_vars

\* what holds: flush only cancels the timeout; the write at teardown is the
\* cleanup's own saveCurrentThread call, made whether or not a save was
\* pending, and nothing is written after the teardown
C23_CleanupSavesItself ==
    [][/\ (hook.mounted /\ ~hook'.mounted)
            => /\ ~hook'.timeoutId
               /\ IF Len(hook.messages) > 0
                  THEN SavesCurrent /\ call'.by = "cleanup"
                  ELSE saves' = saves
       /\ ~hook.mounted => (saves' = saves /\ legacyStore' = legacyStore
                            /\ hook' = hook)]_vars

(***************************************************************************)
(* ollama-external-runtime.tsx, the model sync effect of the provider.     *)
(* threadModel holds the model field of the threads whose model was set    *)
(* (a thread without an entry has model "").  React runs the effect after  *)
(* the render in which chatStore.currentThreadId changed, before the next  *)
(* event is handled.                                                       *)
(***************************************************************************)
\* another model name, "l"
Llama == <<108>>

\* the deps of an effect that has not run yet
NoDep == [kind |-> "none"]

\* thread.model of the thread id
modelOf(tm, id) == IF HasId(tm, id) THEN Get(tm, id).model ELSE NoModel

\* state.threads[id].model = model
withModel(tm, id, model) == Put(tm, [id |-> id, model |-> model])

\* the provider after its first render
MountProvider ==
    /\ loaded
    /\ ~provider.mounted
    /\ provider' = [mounted |-> TRUE, isInitialMount |-> TRUE, dep |-> NoDep]
    /\ UNCHANGED <<hook, selectedModel, threadModel>>
    /\ UNCHANGED chatVars
    /\ UNCHANGED storageVars
    /\ UNCHANGED request
    /\ UNCHANGED projectVars

\* the effect has run for the current value of its deps
Settled == provider.mounted /\ provider.dep = Defined(currentThreadId)

\* the effect on thread switch: the thread's model wins
syncOnSwitch(m) ==
    [selected |-> IF m # NoModel /\ m # selectedModel THEN m ELSE selectedModel,
     thread |-> m]

\* the effect on the initial mount: the model store wins
syncOnMount(m) ==
    IF selectedModel # NoModel /\ selectedModel # m
    THEN [selected |-> selectedModel, thread |-> selectedModel]
    ELSE IF m # NoModel /\ selectedModel = NoModel
         THEN [selected |-> m, thread |-> m]
         ELSE [selected |-> selectedModel, thread |-> m]

\* the model sync effect runs
ModelSyncEffect ==
    /\ provider.mounted
    /\ provider.dep # Defined(currentThreadId)
    /\ IF ~HasId(threads, currentThreadId)
       THEN /\ provider' = [provider EXCEPT !.dep = Defined(currentThreadId)]
            /\ UNCHANGED <<selectedModel, threadModel>>
       ELSE LET m == modelOf(threadModel, currentThreadId)
                r == IF provider.isInitialMount THEN syncOnMount(m)
                     ELSE syncOnSwitch(m)
            IN  /\ selectedModel' = r.selected
                /\ threadModel' = IF r.thread # m
                                  THEN withModel(threadModel, currentThreadId, r.thread)
                                  ELSE threadModel
                /\ provider' = [provider EXCEPT !.isInitialMount = FALSE,
                                                !.dep = Defined(currentThreadId)]
    /\ UNCHANGED hook
    /\ UNCHANGED chatVars
    /\ UNCHANGED storageVars
    /\ UNCHANGED request
    /\ UNCHANGED projectVars

\* onSwitchToNewThread of the chat thread list: createNewThread(selectedModel)
switchToNewThread ==
    LET newId == generateId(nextId + 1)
    IN  /\ loaded
        /\ nextId < MaxIds
        /\ nextId' = nextId + 1
        /\ threads' = Put(threads, createInitialThread(newId))
        /\ threadModel' = withModel(threadModel, newId, selectedModel)
        /\ currentThreadId' = newId
        /\ Persisted(newId, threads')
        /\ last' = Did("createNewThread", newId)
        /\ UNCHANGED <<isRunning, loaded, migrations, streams>>
        /\ UNCHANGED <<hook, selectedModel, provider>>
        /\ UNCHANGED storageVars
        /\ UNCHANGED request
        /\ UNCHANGED projectVars

\* the model selector: setSelectedModel(model) of the model store
selectModel(model) ==
    /\ model # selectedModel
    /\ selectedModel' = model
    /\ UNCHANGED <<hook, threadModel, provider>>
    /\ UNCHANGED chatVars
    /\ UNCHANGED storageVars
    /\ UNCHANGED request
    /\ UNCHANGED projectVars

\* updateThreadModel(id, model)
updateThreadModel(id, model) ==
    /\ loaded
    /\ threadModel' = IF HasId(threads, id) THEN withModel(threadModel, id, model)
                      ELSE threadModel
    /\ UNCHANGED <<hook, selectedModel, provider>>
    /\ UNCHANGED chatVars
    /\ UNCHANGED storageVars
    /\ UNCHANGED request
    /\ UNCHANGED projectVars

\* the threads of a store whose current thread exists, and of one initialised
\* from a legacy document without a "main" thread
ModelThreads == {<<createInitialThread(MainId), createInitialThread(11)>>,
                 <<createInitialThread(11), createInitialThread(12)>>}

InitModel ==
    /\ legacyStore = NoDoc
    /\ now = 1
    /\ call = NoCall
    /\ saves = 0
    /\ threads \in ModelThreads
    /\ currentThreadId = MainId
    /\ chatStorage = ChatDoc(MainId, threads)
    /\ loaded = TRUE
    /\ isRunning = FALSE
    /\ nextId = 0
    /\ migrations = <<>>
    /\ last = NoOp
    /\ streams = <<>>
    /\ request = NoCall
    /\ projects = <<>>
    /\ projectThreadId = Undefined
    /\ titled = NoCall
    /\ hook = NoHook
    /\ selectedModel \in {NoModel, Gemma, Llama}
    /\ \E m1 \in {NoModel, Gemma}, m2 \in {NoModel, Llama} :
          threadModel = <<[id |-> threads[1].id, model |-> m1],
                          [id |-> threads[2].id, model |-> m2]>>
    /\ provider = Unmounted

NextModel ==
    \/ MountProvider
    \/ ModelSyncEffect
    \/ Settled /\ \E id \in Ids(threads) : setCurrentThreadId(id)
    \/ Settled /\ switchToNewThread
    \/ Settled /\ \E id \in Ids(threads) : deleteThread(id)
    \/ Settled /\ \E model \in {Gemma, Llama} : selectModel(model)
    \/ /\ Settled
       /\ HasId(threads, currentThreadId)
       /\ selectedModel # NoModel
       /\ modelOf(threadModel, currentThreadId) # selectedModel
       /\ updateThreadModel(currentThreadId, selectedModel)

SpecModel == InitModel /\ [][NextModel]_vars

\* the step is a run of the model sync effect for an existing current thread
EffectStep ==
    /\ provider.mounted
    /\ provider'.dep # provider.dep
    /\ HasId(threads, currentThreadId)

\* C24: when currentThreadId changes after the initial mount to a thread
\* whose model m is non-empty and differs from the selected model, the
\* selected model becomes m and the thread's model stays m; on the initial
\* mount a non-empty selected model overwrites the current thread's model.
C24_ThreadModelWinsOnSwitch ==
    [][EffectStep =>
         LET m == modelOf(threadModel, currentThreadId)
         IN  IF provider.dep = NoDep
             THEN (selectedModel # NoModel /\ selectedModel # m)
                    => /\ modelOf(threadModel', currentThreadId) = selectedModel
                       /\ selectedModel' = selectedModel
             ELSE (m # NoModel /\ m # selectedModel)
                    => /\ selectedModel' = m
                       /\ modelOf(threadModel', currentThreadId) = m]_vars

\* what holds: the precedence follows isInitialMount, which is cleared by the
\* first run of the effect that finds a current thread
C24_PrecedenceFollowsFlag ==
    [][EffectStep =>
         LET m == modelOf(threadModel, currentThreadId)
         IN  /\ ~provider'.isInitialMount
             /\ IF provider.isInitialMount
                THEN (selectedModel # NoModel /\ selectedModel # m)
                       => /\ modelOf(threadModel', currentThreadId) = selectedModel
                          /\ selectedModel' = selectedModel
                ELSE (m # NoModel /\ m # selectedModel)
                       => /\ selectedModel' = m
                          /\ modelOf(threadModel', currentThreadId) = m]_vars

\* the same claim, for a store whose current thread existed at the mount
C24_HoldsWhenMountedOnThread ==
    [][(EffectStep /\ (provider.dep # NoDep => ~provider.isInitialMount))
         => LET m == modelOf(threadModel, currentThreadId)
            IN  IF provider.dep = NoDep
                THEN (selectedModel # NoModel /\ selectedModel # m)
                       => /\ modelOf(threadModel', currentThreadId) = selectedModel
                          /\ selectedModel' = selectedModel
                ELSE (m # NoModel /\ m # selectedModel)
                       => /\ selectedModel' = m
                          /\ modelOf(threadModel', currentThreadId) = m]_vars

\* the stream s is over: it ended or it threw
Over(s) == streams[s].pc \in {"done", "failed"}

\* C25: once its stream is over, the assistant message the stream added with
\* status running is complete or incomplete, and it holds every fragment of
\* the stream, in the thread where the request was issued, whatever thread
\* operations were interleaved with the fragments.
C25_StreamSettlesItsMessage ==
    \A s \in DOMAIN streams :
        (Over(s) /\ InThread(threads, s)) =>
            /\ StreamMessage(threads, s).status \in {Complete, Incomplete(Failure)}
            /\ StreamMessage(threads, s).content =
                  Parts(<<TextPart(Concat(streams[s].frags))>>)

\* what holds: a fragment, the end and a failure of a stream are applied to
\* the thread that is current when they arrive; they reach the stream's
\* message exactly when that is the thread of the request, and otherwise
\* leave it as it was
C25_AppliedToCurrentThread ==
    [][\A s \in DOMAIN streams :
          (streams'[s] # streams[s] /\ InThread(threads, s)) =>
              IF currentThreadId = streams[s].thread
              THEN /\ streams'[s].pc = "done" =>
                         StreamMessage(threads, s)'.status = Complete
                   /\ streams'[s].pc = "failed" =>
                         StreamMessage(threads, s)'.status = Incomplete(Failure)
                   /\ Len(streams'[s].frags) > Len(streams[s].frags) =>
                         StreamMessage(threads, s)'.content =
                             Parts(<<TextPart(Concat(streams'[s].frags))>>)
              ELSE StreamMessage(threads, s)' = StreamMessage(threads, s)
      ]_vars

(***************************************************************************)
(* A page in which a response is being streamed: nothing in the handlers   *)
(* tests isRunning, so onReload and onEdit can start a second stream while *)
(* the first one is delivering fragments.                                  *)
(***************************************************************************)
\* the main thread after onNew("Hi"): the user message and the assistant
\* message of the stream in flight
Streaming ==
    Conversation \o <<Msg(generateMessageId(1), "user", Parts(<<TextPart(Hello)>>),
                          <<>>, NoStatus),
                      assistantMessage(generateMessageId(2))>>

InitOverlap ==
    /\ legacyStore = NoDoc
    /\ now = 1
    /\ call = NoCall
    /\ saves = 0
    /\ threads = <<ChatThread(MainId, Streaming, generateThreadTitle(Streaming),
                              "regular")>>
    /\ currentThreadId = MainId
    /\ chatStorage = ChatDoc(MainId, threads)
    /\ loaded = TRUE
    /\ isRunning = TRUE
    /\ nextId = 0
    /\ migrations = <<>>
    /\ last = NoOp
    /\ streams = <<NewStream(generateMessageId(2), "earlier", NullId)>>
    /\ request = NoCall
    /\ projects = <<>>
    /\ projectThreadId = Undefined
    /\ titled = NoCall
    /\ hook = NoHook
    /\ selectedModel = NoModel
    /\ threadModel = <<>>
    /\ provider = Unmounted

NextOverlap ==
    \/ \E parentId \in ParentIds : onReload(parentId)
    \/ \E parentId \in ParentIds : onEdit(parentId, Parts(<<TextPart(Edited)>>))
    \/ \E s \in DOMAIN streams : Chunk(s)
    \/ \E s \in DOMAIN streams : StreamEnds(s)
    \/ \E s \in DOMAIN streams : StreamThrows(s)

SpecOverlap == InitOverlap /\ [][NextOverlap]_vars

\* C26: isRunning is true exactly while some response stream has started and
\* not finished; the end of one stream does not clear it while another one
\* is still streaming.
C26_RunningWhileAnyStreams ==
    isRunning <=> \E s \in DOMAIN streams : streams[s].pc = "streaming"

\* what holds: isRunning is what the last start or end of a stream made it
\* (true after a start, false after an end or a failure), whatever the other
\* streams are doing; with one stream at a time that is the claim
C26_LastWriterWins ==
    [][/\ Len(streams') > Len(streams) => isRunning'
       /\ (\E s \in DOMAIN streams : ~Over(s) /\ streams'[s].pc \in {"done", "failed"})
            => ~isRunning'
       /\ (Len(streams') = Len(streams)
           /\ \A s \in DOMAIN streams : streams'[s].pc = streams[s].pc)
            => isRunning' = isRunning]_vars

(***************************************************************************)
(* Page loads of a browser that holds both documents: the chat store's own *)
(* (ollama-chat-storage) and the one saveThreads writes under the legacy   *)
(* key (ollama-threads-storage) while the page is in use.                  *)
(***************************************************************************)
\* documents found under ollama-chat-storage: none, the one of a fresh
\* store, and the one of a store with conversations
ChatDocs ==
    {NoDoc, ChatDoc(MainId, <<createInitialThread(MainId)>>),
     ChatDoc(MainId, LoadedThreads)}

InitUpgrade ==
    /\ legacyStore \in LegacyDocs
    /\ now = 1
    /\ call = NoCall
    /\ saves = 0
    /\ chatStorage \in ChatDocs
    /\ loaded = FALSE
    /\ threads = <<>>
    /\ currentThreadId = MainId
    /\ isRunning = FALSE
    /\ nextId = 0
    /\ migrations = <<>>
    /\ last = NoOp
    /\ streams = <<>>
    /\ request = NoCall
    /\ projects = <<>>
    /\ projectThreadId = Undefined
    /\ titled = NoCall
    /\ hook = NoHook
    /\ selectedModel = NoModel
    /\ threadModel = <<>>
    /\ provider = Unmounted

SpecUpgrade == InitUpgrade /\ [][NextChat]_vars

\* every thread of the legacy document doc is in ts, with its messages
KeepsThreadsOf(doc, ts) ==
    \A i \in DOMAIN doc.threads :
        \E j \in DOMAIN ts :
            /\ ts[j].id = doc.threads[i].id
            /\ ts[j].messages = doc.threads[i].messages

\* C27: right after a page load that found a parseable legacy document,
\* every thread of that document is a thread of the store with its messages,
\* also when a document in the current format was rehydrated over the
\* initial state.
C27_MigrationLosesNothing ==
    (/\ last.op = "boot"
     /\ migrations[Len(migrations)].before.kind = "doc") =>
        KeepsThreadsOf(migrations[Len(migrations)].before, threads)

\* what holds: the threads of the legacy document are in the store after a
\* page load that found no document in the current format
C27_KeptWithoutCurrentDocument ==
    [][(/\ Len(migrations') > Len(migrations)
        /\ legacyStore.kind = "doc"
        /\ chatStorage.kind # "doc") => KeepsThreadsOf(legacyStore, threads')]_vars

\* and after one that found a document in the current format the store holds
\* that document's threads, whatever the legacy document held, and the legacy
\* key is gone all the same
C27_CurrentDocumentReplacesMigration ==
    [][(/\ Len(migrations') > Len(migrations)
        /\ legacyStore.kind = "doc"
        /\ chatStorage.kind = "doc") =>
            /\ threads' = chatStorage.threads
            /\ legacyStore' = NoDoc]_vars

(***************************************************************************)
(* Further claims about the persistence layer (SpecStorage)                *)
(***************************************************************************)
\* the stored document names the thread of `data` as its main thread and
\* holds it with the messages of `data`
HoldsSaved(store, data) ==
    /\ store.kind = "doc"
    /\ store.mainThreadId = data.threadId
    /\ \E i \in DOMAIN store.threads :
          /\ store.threads[i].id = data.threadId
          /\ store.threads[i].messages = data.messages

\* the saved thread was modified later than every other thread of the merged
\* set
SavedIsNewest ==
    \A i \in DOMAIN call.merged :
        call.merged[i].id # call.data.threadId =>
            call.merged[i].updatedAt < now

\* C28: after every saveThreads call whose write succeeds, the persisted
\* document's mainThreadId is the saved thread id and the document holds
\* that thread with the messages just passed; retention never evicts the
\* thread being saved, also with more than maxThreads threads and tied
\* updatedAt timestamps.
C28_SavedThreadIsPersisted ==
    (SaveCalled /\ FirstWrite.outcome = "ok") => HoldsSaved(legacyStore, call.data)

\* what holds: the saved thread is persisted when the merged set fits the
\* limit, when the thread was already stored, or when every other thread
\* was modified at an earlier millisecond
C28_PersistedUnlessTiedAndNew ==
    (/\ SaveCalled
     /\ FirstWrite.outcome = "ok"
     /\ \/ Len(call.merged) <= maxThreads
        \/ call.before.kind = "doc" /\ HasId(call.before.threads, call.data.threadId)
        \/ SavedIsNewest) => HoldsSaved(legacyStore, call.data)

(***************************************************************************)
(* Page reloads during the use of the chat: the store module is evaluated  *)
(* again from the document the persist middleware wrote last; the streams  *)
(* of the page that went away deliver nothing more.                        *)
(***************************************************************************)
NextReload ==
    \/ onNew(Parts(<<TextPart(Hello)>>))
    \/ \E parentId \in ParentIds : onReload(parentId)
    \/ \E s \in DOMAIN streams : Chunk(s)
    \/ \E s \in DOMAIN streams : StreamEnds(s)
    \/ \E s \in DOMAIN streams : StreamThrows(s)
    \/ \E id \in Ids(threads) : setCurrentThreadId(id)
    \/ Boot

SpecReload == InitStream /\ [][NextReload]_vars

\* the step is a page load
Reloads == Len(migrations') > Len(migrations)

\* no message of any thread of ts has status running
NoneRunning(ts) ==
    \A i \in DOMAIN ts : \A j \in DOMAIN ts[i].messages :
        ts[i].messages[j].status # Running

\* C29: after the chat store is rehydrated from its persisted document,
\* written at any point of a run, isRunning is false and no message of any
\* thread has status running.
C29_NothingRunningAfterReload ==
    [][Reloads => (~isRunning' /\ NoneRunning(threads'))]_vars

\* what holds: isRunning is not persisted and is false after every page load
C29_IsRunningFalseAfterReload ==
    [][Reloads => ~isRunning']_vars

\* and the messages come back as they were persisted, status included
C29_MessagesAsPersisted ==
    [][(Reloads /\ chatStorage.kind = "doc") => threads' = chatStorage.threads]_vars

(***************************************************************************)
(* The chat store with threads the user has renamed (SpecRename): the      *)
(* message operations as the runtime calls them, and the thread list's     *)
(* rename, archive, unarchive and switch                                   *)
(***************************************************************************)
Renamed == <<77, 121>>                                 \* "My"

\* chatStore.setMessages(messages)
SetMessages(messages) ==
    /\ loaded
    /\ threads' = setMessages(threads, currentThreadId, messages)
    /\ Persisted(currentThreadId, threads')
    /\ UNCHANGED <<currentThreadId, isRunning, loaded, nextId, migrations,
                   last, streams>>
    /\ UNCHANGED storageVars
    /\ UNCHANGED request
    /\ UNCHANGED projectVars
    /\ UNCHANGED hookVars

\* chatStore.updateMessage(id, updates)
UpdateMessage(id, updates) ==
    /\ loaded
    /\ threads' = updateMessage(threads, currentThreadId, id, updates)
    /\ Persisted(currentThreadId, threads')
    /\ UNCHANGED <<currentThreadId, isRunning, loaded, nextId, migrations,
                   last, streams>>
    /\ UNCHANGED storageVars
    /\ UNCHANGED request
    /\ UNCHANGED projectVars
    /\ UNCHANGED hookVars

\* the messages the handlers pass to setMessages: the current ones up to a
\* parent (onReload, onEdit), none of them included
KeptMessages == {SubSeq(getCurrentMessages, 1, n) : n \in 0..Len(getCurrentMessages)}

\* the assistant messages of the current thread that are still running: the
\* ones the runtime passes to updateMessage
RunningMessages ==
    {m \in Range(getCurrentMessages) : m.role = "assistant" /\ m.status = Running}

\* the user archives a thread while another regular one is left, so that no
\* thread is created in its place
AnotherRegular(id) == \E t \in Range(threads) : t.id # id /\ IsRegular(t)

NextRename ==
    \/ \E id \in Ids(threads) : renameThread(id, Renamed)
    \/ AddMessage("user", Hello)
    \/ AddMessage("assistant", <<>>)
    \/ \E messages \in KeptMessages : SetMessages(messages)
    \/ \E m \in RunningMessages :
          \E updates \in {ContentUpdate(Reply), StatusUpdate(Complete)} :
              UpdateMessage(m.id, updates)
    \/ \E id \in Ids(threads) : AnotherRegular(id) /\ archiveThread(id)
    \/ \E id \in Ids(threads) : unarchiveThread(id)
    \/ \E id \in Ids(threads) : setCurrentThreadId(id)

SpecRename == InitMessages /\ [][NextRename]_vars

\* the thread id exists before and after the step and had the title the
\* user gave it
KeepsRenamed(id) ==
    (/\ HasId(threads, id)
     /\ HasId(threads', id)
     /\ Get(threads, id).title = Renamed) => Get(threads', id).title = Renamed

\* C30: a title set by renameThread(id, t) is never replaced by an
\* auto-derived label: addMessage, setMessages, updateMessage, archiving,
\* unarchiving and thread switches leave the thread's title t.
C30_RenamedTitleStays ==
    [][\A id \in Ids(threads) : KeepsRenamed(id)]_vars

\* what holds: the only step that replaces the title is addMessage of a user
\* message as the first message of the current thread, and it replaces it by
\* the label derived from that message
C30_ReplacedOnlyByFirstUserMessage ==
    [][\A id \in Ids(threads) :
          (/\ HasId(threads', id)
           /\ Get(threads, id).title = Renamed
           /\ Get(threads', id).title # Renamed) =>
              /\ id = currentThreadId
              /\ Get(threads, id).messages = <<>>
              /\ Len(Get(threads', id).messages) = 1
              /\ Get(threads', id).messages[1].role = "user"
              /\ Get(threads', id).title =
                    generateThreadTitle(Get(threads', id).messages)]_vars
====
